---- MODULE Spec2Model ----
(***************************************************************************)
(* Memory & semantic retrieval engine of bolt.diy                          *)
(* (app/lib/memory: MemoryManager, MemoryPersistence, ContextAnalyzer,     *)
(* SemanticSearch) as a state machine.                                     *)
(*                                                                         *)
(* Conventions of the model                                                *)
(*  - Time stamps (Date.now()) are counted in whole days.                  *)
(*  - importance is counted in tenths (0.3 is 3, 0.9 is 9).                *)
(*  - A text is the sequence of its lower-case words; a word is a string.  *)
(*  - A JS Map is a sequence of values in insertion order (the table) or a *)
(*    function whose DOMAIN is the key set (the index buckets).            *)
(*  - An async method is cut at its awaits on persistence I/O; the awaits  *)
(*    on in-process helpers resume within the same microtask drain.        *)
(***************************************************************************)
EXTENDS Integers, Sequences, FiniteSets, TLC

\* ------------------------------------------------------------------ bounds
\* calls of the manager's interface (store, get, search, optimize), and days
\* passed, per behaviour of Spec
MaxCalls == 2

\* ------------------------------------------------------- program constants
EMBEDDING_DIMENSION == 384
ThirtyDays == 30
RecentLimit == 100
RelatedLimit == 10
DefaultMaxResults == 20
\* importance < 0.3, in tenths
ImportanceFloor == 3
AccessFloor == 3
\* similarityThreshold 0.7, in tenths
SimilarityThreshold == 7
\* the clock when the manager is constructed (day number within the year)
StartDay == 40

\* --------------------------------------------------------------- utilities
RECURSIVE SumSeq(_)
SumSeq(s) == IF s = <<>> THEN 0 ELSE Head(s) + SumSeq(Tail(s))

RECURSIVE SetToSeq(_)
SetToSeq(S) ==
  IF S = {} THEN <<>>
  ELSE LET x == CHOOSE y \in S : \A z \in S : y <= z
       IN <<x>> \o SetToSeq(S \ {x})

RECURSIVE SumOver(_, _)
SumOver(S, f) ==
  IF S = {} THEN 0
  ELSE LET x == CHOOSE y \in S : TRUE IN f[x] + SumOver(S \ {x}, f)

Range(s) == {s[i] : i \in DOMAIN s}

Take(s, n) == SubSeq(s, 1, IF n < Len(s) THEN n ELSE Len(s))

\* [...new Set(s)]: first occurrences, in order
RECURSIVE Dedup(_)
Dedup(s) ==
  IF s = <<>> THEN <<>>
  ELSE LET r == Dedup(SubSeq(s, 1, Len(s) - 1))
           x == s[Len(s)]
       IN IF x \in Range(r) THEN r ELSE Append(r, x)

\* ------------------------------------------------------------------- words
\* The words the modelled texts are made of, with what the analyzer's and the
\* embedder's regular expressions and word lists make of each.
Words == {"cache", "test", "query", "react", "api", "c++11",
          "compile", "while", "view", "number", "node", "the"}

CharCodes(w) ==
  CASE w = "cache" -> <<99, 97, 99, 104, 101>>
    [] w = "test"  -> <<116, 101, 115, 116>>
    [] w = "query" -> <<113, 117, 101, 114, 121>>
    [] w = "react" -> <<114, 101, 97, 99, 116>>
    [] w = "api"   -> <<97, 112, 105>>
    [] w = "c++11" -> <<99, 43, 43, 49, 49>>
    [] w = "compile" -> <<99, 111, 109, 112, 105, 108, 101>>
    [] w = "while" -> <<119, 104, 105, 108, 101>>
    [] w = "view"  -> <<118, 105, 101, 119>>
    [] w = "number" -> <<110, 117, 109, 98, 101, 114>>
    [] w = "node"  -> <<110, 111, 100, 101>>
    [] w = "the"   -> <<116, 104, 101>>
    [] OTHER       -> <<>>

\* /^[a-zA-Z]+$/
IsAlphabetic(w) == \A i \in DOMAIN CharCodes(w) : CharCodes(w)[i] >= 97 /\ CharCodes(w)[i] <= 122

\* term is a substring of word (String.prototype.includes); "" is in everything
Includes(word, term) ==
  \/ term = ""
  \/ term = word
  \/ LET w == CharCodes(word)
         t == CharCodes(term)
     IN /\ Len(t) > 0
        /\ \E i \in 1..(Len(w) - Len(t) + 1) : SubSeq(w, i, i + Len(t) - 1) = t

\* a text, as one string, includes the term: terms hold no white space, so the
\* term lies within one word
TextIncludes(text, term) == term = "" \/ \E i \in DOMAIN text : Includes(text[i], term)

\* ---------------------------------------------------------- ContextAnalyzer
\* ENTITY_PATTERNS, in the order Object.entries yields them
EntityTypes == <<"technology", "framework", "library", "api", "database", "concept">>

\* the entity name a pattern of the given type finds in the word ("" for none)
EntityMatch(type, w) ==
  CASE type = "technology" /\ w = "react" -> "react"
    [] type = "technology" /\ w = "c++11" -> "c++"
    [] type = "framework" /\ w = "react"  -> "react"
    [] type = "api" /\ w = "api"          -> "api"
    [] type = "concept" /\ w = "view"     -> "view"
    [] OTHER                              -> ""

\* new RegExp(entity.toLowerCase(), 'g') is a syntax error ("nothing to repeat")
RegExpThrows(name) == name = "c++"

\* KEYWORD_PATTERNS, in the order Object.entries yields them
KeywordCategories == <<"action", "priority", "status", "quality">>

KeywordMatch(category, w) == category = "action" /\ w \in {"cache", "test", "compile"}

AnalyzerStopWords == {"the", "and", "with", "this", "that"}

isStopWord(w) == w \in AnalyzerStopWords

RECURSIVE MatchesOfTypes(_, _)
MatchesOfTypes(types, content) ==
  IF types = <<>> THEN <<>>
  ELSE LET t == Head(types)
           hits == SelectSeq(content, LAMBDA w : EntityMatch(t, w) # "")
       IN [i \in DOMAIN hits |-> [type |-> t, name |-> EntityMatch(t, hits[i])]]
          \o MatchesOfTypes(Tail(types), content)

\* deduplicateEntities: the names of the model are lower case already
deduplicateEntities(entities) == Dedup(entities)

extractEntities(content) == deduplicateEntities(MatchesOfTypes(EntityTypes, content))

\* calculateEntityConfidence raises for a match that is no regular expression
analyzeContentThrows(content) ==
  \E i \in DOMAIN content : \E k \in DOMAIN EntityTypes :
    RegExpThrows(EntityMatch(EntityTypes[k], content[i]))

RECURSIVE MatchesOfCategories(_, _)
MatchesOfCategories(cats, content) ==
  IF cats = <<>> THEN <<>>
  ELSE SelectSeq(content, LAMBDA w : KeywordMatch(Head(cats), w))
       \o MatchesOfCategories(Tail(cats), content)

extractKeywords(content) ==
  LET importantWords ==
        SelectSeq(content, LAMBDA w : Len(CharCodes(w)) > 3 /\ ~isStopWord(w) /\ IsAlphabetic(w))
  IN Dedup(MatchesOfCategories(KeywordCategories, content) \o importantWords)

\* generateSummary: a content of at most two sentences and 200 characters, as
\* the modelled ones are, is its own summary
generateSummary(content) == content

\* calculateConfidence, in hundredths, for a content of at most 100 characters
\* without code or list markup: 0.5 + min(0.05 * entities, 0.2) + min(0.02 * keywords, 0.1)
calculateConfidence(content, entities, keywords) ==
  LET e == IF 5 * Len(entities) < 20 THEN 5 * Len(entities) ELSE 20
      k == IF 2 * Len(keywords) < 10 THEN 2 * Len(keywords) ELSE 10
      c == 50 + e + k
  IN IF c < 100 THEN c ELSE 100

\* existingMetadata: [source, projectId, entities, summary, keywords, confidence] ("" is an absent
\* scalar, <<>> an absent list)
analyzeContent(content, existingMetadata) ==
  [ source    |-> IF existingMetadata.source # "" THEN existingMetadata.source ELSE "user-input",
    projectId |-> existingMetadata.projectId,
    entities  |-> existingMetadata.entities \o extractEntities(content),
    summary   |-> generateSummary(content),
    keywords  |-> Dedup(existingMetadata.keywords \o extractKeywords(content)),
    confidence |-> calculateConfidence(content, extractEntities(content), extractKeywords(content)) ]

\* ----------------------------------------------------------- SemanticSearch
IsWordChar(c) == (c >= 97 /\ c <= 122) \/ (c >= 65 /\ c <= 90) \/ (c >= 48 /\ c <= 57) \/ c = 95

\* the runs of word characters of a code sequence: replace(/[^\w\s]/g, ' ') and split
RECURSIVE SplitCodes(_, _)
SplitCodes(codes, cur) ==
  IF codes = <<>> THEN (IF cur = <<>> THEN <<>> ELSE <<cur>>)
  ELSE IF IsWordChar(Head(codes)) THEN SplitCodes(Tail(codes), Append(cur, Head(codes)))
  ELSE (IF cur = <<>> THEN <<>> ELSE <<cur>>) \o SplitCodes(Tail(codes), <<>>)

RECURSIVE Flatten(_)
Flatten(ss) == IF ss = <<>> THEN <<>> ELSE Head(ss) \o Flatten(Tail(ss))

EmbedStopWordCodes == {<<116, 104, 101>>, <<97, 110, 100>>, <<102, 111, 114>>}

\* tokens are code sequences
tokenize(text) ==
  SelectSeq(Flatten([i \in DOMAIN text |-> SplitCodes(CharCodes(text[i]), <<>>)]),
            LAMBDA t : Len(t) > 2 /\ t \notin EmbedStopWordCodes)

\* the curated vocabulary, as far as the words of the model go
Vocabulary == {CharCodes(w) : w \in {"cache", "test", "query", "react", "api",
                                      "compile", "while", "view", "number", "node"}}

\* hash = ((hash << 5) - hash) + char; hash & hash: 31*hash + char in 32-bit
\* two's complement, kept as two 16-bit halves <<hi, lo>>
HashStep(h, c) ==
  LET lo == 31 * h[2] + c
  IN << (31 * h[1] + (lo \div 65536)) % 65536, lo % 65536 >>

RECURSIVE HashCodes(_, _)
HashCodes(codes, h) ==
  IF codes = <<>> THEN h ELSE HashCodes(Tail(codes), HashStep(h, Head(codes)))

\* variant: hash % 384 without Math.abs, negative for a negative hash
hashWordToDimension_NoAbs(word) ==
  LET h == HashCodes(word, <<0, 0>>)
      umod == ((h[1] % EMBEDDING_DIMENSION) * (65536 % EMBEDDING_DIMENSION) + h[2]) % EMBEDDING_DIMENSION
  IN IF h[1] < 32768 THEN umod
     ELSE 0 - (((65536 % EMBEDDING_DIMENSION) + EMBEDDING_DIMENSION - umod) % EMBEDDING_DIMENSION)

\* Math.abs(hash) % 384 of the signed 32-bit value hi*2^16 + lo
hashWordToDimension(word) ==
  LET h == HashCodes(word, <<0, 0>>)
      umod == ((h[1] % EMBEDDING_DIMENSION) * (65536 % EMBEDDING_DIMENSION) + h[2]) % EMBEDDING_DIMENSION
  IN IF h[1] < 32768 THEN umod
     ELSE ((65536 % EMBEDDING_DIMENSION) + EMBEDDING_DIMENSION - umod) % EMBEDDING_DIMENSION

computeWordFrequency(words, w) == Len(SelectSeq(words, LAMBDA x : x = w))

\* tf * idf for a vocabulary word (idf = 1.0), times the common denominator
\* words.length; every token of the modelled texts is in the vocabulary
computeTFIDF(word, termFreq) == IF word \in Vocabulary THEN termFreq ELSE 0

\* The embedding: [dimension |-> weight] over the non-zero dimensions, standing
\* for that vector scaled to length 1 (normalizeVector); the zero vector, which
\* normalizeVector returns as it is, is the empty function.
computeSimpleEmbedding(text) ==
  LET words == tokenize(text)
      dims == {hashWordToDimension(w) : w \in Range(words)}
  IN [d \in dims |->
        SumOver({w \in Range(words) : hashWordToDimension(w) = d},
                [w \in Range(words) |-> computeTFIDF(w, computeWordFrequency(words, w))])]

\* the text as one string: its words joined by single spaces
RECURSIVE TextCodes(_)
TextCodes(text) ==
  IF text = << >> THEN << >>
  ELSE IF Len(text) = 1 THEN CharCodes(text[1])
  ELSE CharCodes(Head(text)) \o <<32>> \o TextCodes(Tail(text))

\* getCacheKey: the 32-bit hash of the text (the string hash.toString() is one
\* to one with it)
getCacheKey(text) == HashCodes(TextCodes(text), <<0, 0>>)

\* generateEmbedding: the vector the cache holds under the text's key, or else
\* the computed one (computeSimpleEmbedding raises for no string)
generateEmbedding(cache, text) ==
  IF getCacheKey(text) \in DOMAIN cache THEN cache[getCacheKey(text)]
  ELSE computeSimpleEmbedding(text)

\* embeddingCache after generateEmbedding(text): a miss stores the computed vector
cacheAfter(cache, text) ==
  IF getCacheKey(text) \in DOMAIN cache THEN cache
  ELSE (getCacheKey(text) :> computeSimpleEmbedding(text)) @@ cache

Dot(a, b) == SumOver(DOMAIN a \cap DOMAIN b, [d \in DOMAIN a \cap DOMAIN b |-> a[d] * b[d]])

\* calculateSimilarity as the square of the cosine, p/q (all weights are >= 0,
\* so the cosine is too); 0/1 when either magnitude is zero
calculateSimilarity(a, b) ==
  IF Dot(a, a) = 0 \/ Dot(b, b) = 0 THEN [p |-> 0, q |-> 1]
  ELSE [p |-> Dot(a, b) * Dot(a, b), q |-> Dot(a, a) * Dot(b, b)]

\* score >= tenths/10 for a score given as the square p/q
ScoreAtLeast(score, tenths) == 100 * score.p >= tenths * tenths * score.q

\* ------------------------------------------------------------ MemoryManager
VARIABLES
  memories,   \* _memories: the authoritative table, entries in insertion order
  index,      \* _index: the secondary indexes, the recent list, the vectors
  stats,      \* _stats
  persisted,  \* what the persistence collaborator holds, in key order
  now,        \* Date.now()
  nextId,     \* the next fresh entry id
  load,       \* the constructor's un-awaited loadMemories(): [pc, snap]
  store,      \* the storeMemory call in flight: [pc, mem]
  opt,        \* the optimizeMemory call in flight or last returned
  ret,        \* what the last step returned to its caller
  calls,      \* calls made so far
  ioFailed,   \* some persistence call has failed
  embeddingCache  \* SemanticSearch.embeddingCache: cache key to vector

vars == <<memories, index, stats, persisted, now, nextId, load, store, opt, ret, calls, ioFailed,
          embeddingCache>>

\* Map over a sequence of entries
Ids(tbl) == {tbl[i].id : i \in DOMAIN tbl}

Has(tbl, id) == id \in Ids(tbl)

Lookup(tbl, id) == tbl[CHOOSE i \in DOMAIN tbl : tbl[i].id = id]

\* Map.prototype.set: a present key keeps its place
MapSet(tbl, e) ==
  IF Has(tbl, e.id)
  THEN [i \in DOMAIN tbl |-> IF tbl[i].id = e.id THEN e ELSE tbl[i]]
  ELSE Append(tbl, e)

MapDelete(tbl, id) == SelectSeq(tbl, LAMBDA e : e.id # id)

\* bucket maps: key -> list of ids
\* if (!map.has(key)) map.set(key, []); map.get(key).push(id)
BucketPush(map, key, id) ==
  IF key \in DOMAIN map THEN [map EXCEPT ![key] = Append(@, id)]
  ELSE map @@ (key :> <<id>>)

RECURSIVE BucketPushAll(_, _, _)
BucketPushAll(map, keys, id) ==
  IF keys = <<>> THEN map
  ELSE BucketPushAll(BucketPush(map, Head(keys), id), Tail(keys), id)

\* new Date(createdAt): day 0 is 1 January; the clock of the model stays
\* within January to March of a year that is no leap year
YearOf(d) == 2026 + (d \div 365)

MonthOf(d) == IF d < 31 THEN 1 ELSE IF d < 59 THEN 2 ELSE 3

DateOf(d) == IF d < 31 THEN d + 1 ELSE IF d < 59 THEN d - 30 ELSE d - 58

\* date.toISOString().split('T')[0]
dayKey(createdAt) == <<YearOf(createdAt), MonthOf(createdAt), DateOf(createdAt)>>

\* `${date.getFullYear()}-W${Math.ceil(date.getDate() / 7)}`
weekKey(createdAt) == <<YearOf(createdAt), (DateOf(createdAt) + 6) \div 7>>

\* `${date.getFullYear()}-${String(date.getMonth() + 1).padStart(2, '0')}`
monthKey(createdAt) == <<YearOf(createdAt), MonthOf(createdAt)>>

entityKey(entity) == <<entity.type, entity.name>>

\* the embedding of an entry that has none (embedding?: number[] left
\* undefined): no vector has a weight on dimension -1
NoEmbedding == [d \in {-1} |-> 0]

\* if (memory.embedding)
HasEmbedding(memory) == memory.embedding # NoEmbedding

initializeIndex ==
  [ byType |-> << >>, byTag |-> << >>, byProject |-> << >>, byEntity |-> << >>,
    byKeyword |-> << >>, byDay |-> << >>, byWeek |-> << >>, byMonth |-> << >>,
    recent |-> << >>, embeddings |-> << >> ]

\* variant: the vector is set whether the entry has one or not
setEmbedding_Unguarded(embeddings, memory) == (memory.id :> memory.embedding) @@ embeddings

\* if (memory.embedding) embeddings.set(memory.id, memory.embedding)
setEmbedding(embeddings, memory) ==
  IF HasEmbedding(memory) THEN (memory.id :> memory.embedding) @@ embeddings ELSE embeddings

\* variant: the list is never cut
pushRecent_Uncut(recent, id) == <<id>> \o recent

\* recent.unshift(id); if (recent.length > 100) recent = recent.slice(0, 100)
pushRecent(recent, id) == Take(<<id>> \o recent, RecentLimit)

updateIndex(idx, memory) ==
  [ byType    |-> BucketPush(idx.byType, memory.type, memory.id),
    byTag     |-> BucketPushAll(idx.byTag, memory.tags, memory.id),
    byProject |-> IF memory.metadata.projectId # ""
                  THEN BucketPush(idx.byProject, memory.metadata.projectId, memory.id)
                  ELSE idx.byProject,
    byEntity  |-> BucketPushAll(idx.byEntity,
                    [i \in DOMAIN memory.metadata.entities |-> entityKey(memory.metadata.entities[i])],
                    memory.id),
    byKeyword |-> BucketPushAll(idx.byKeyword, memory.metadata.keywords, memory.id),
    byDay     |-> BucketPush(idx.byDay, dayKey(memory.createdAt), memory.id),
    byWeek    |-> BucketPush(idx.byWeek, weekKey(memory.createdAt), memory.id),
    byMonth   |-> BucketPush(idx.byMonth, monthKey(memory.createdAt), memory.id),
    recent    |-> pushRecent(idx.recent, memory.id),
    embeddings |-> setEmbedding(idx.embeddings, memory) ]

RECURSIVE updateIndexAll(_, _)
updateIndexAll(idx, mems) ==
  IF mems = <<>> THEN idx ELSE updateIndexAll(updateIndex(idx, Head(mems)), Tail(mems))

\* Array.prototype.sort((a, b) => b.accessCount - a.accessCount): stable
\* x ranks at least as high as y; a rank is the fraction num / den, den > 0
RankAtLeast(x, y) == x.num * y.den >= y.num * x.den

\* Array.prototype.sort, descending by rank and keeping the order of equals:
\* s[j] comes before s[i] when it ranks higher, or ranks the same and stood
\* before it  (<< >> \o f makes the function f a tuple)
StableSort(s) ==
  LET before(j, i) == IF j < i THEN RankAtLeast(s[j], s[i])
                      ELSE j > i /\ ~RankAtLeast(s[i], s[j])
      pos == << >> \o [i \in DOMAIN s |-> 1 + Cardinality({j \in DOMAIN s : before(j, i)})]
  IN [k \in DOMAIN s |-> s[CHOOSE i \in DOMAIN s : pos[i] = k]]

\* .sort((a, b) => b.accessCount - a.accessCount)
SortByAccess(mems) ==
  LET ranked == << >> \o [i \in DOMAIN mems |->
                            [v |-> mems[i], num |-> mems[i].accessCount, den |-> 1]]
      sorted == StableSort(ranked)
  IN [i \in DOMAIN sorted |-> sorted[i].v]

initializeStats(t) ==
  [ totalEntries |-> 0, entriesByType |-> << >>, importanceSum |-> 0,
    mostAccessedEntries |-> << >>, created |-> 0, accessed |-> 0, lastOptimized |-> t ]

\* averageImportance is importanceSum / totalEntries
updateStats(st, tbl, idx) ==
  [ st EXCEPT
      !.totalEntries = Len(tbl),
      !.entriesByType = [t \in DOMAIN idx.byType |-> Len(idx.byType[t])],
      !.importanceSum = SumSeq([i \in DOMAIN tbl |-> tbl[i].importance]),
      !.mostAccessedEntries =
          LET sorted == Take(SortByAccess(tbl), 10)
          IN [i \in DOMAIN sorted |-> sorted[i].id] ]

\* variant: one pass in scan order, over shared entities or shared keywords
findRelatedMemories_OnePass(tbl, memory) ==
  LET related == SelectSeq(tbl, LAMBDA e :
        /\ e.id # memory.id
        /\ \/ Range(e.metadata.entities) \cap Range(memory.metadata.entities) # {}
           \/ Cardinality(Range(e.metadata.keywords) \cap Range(memory.metadata.keywords)) >= 2)
  IN Take([i \in DOMAIN related |-> related[i].id], RelatedLimit)

\* variant: no relation is found
findRelatedMemories_None(tbl, memory) == << >>

\* findRelatedMemories: two passes over the table, first 10
findRelatedMemories(tbl, memory) ==
  LET others == SelectSeq(tbl, LAMBDA e : e.id # memory.id)
      sharesEntity(e) ==
        \E i \in DOMAIN memory.metadata.entities : \E j \in DOMAIN e.metadata.entities :
          /\ e.metadata.entities[j].name = memory.metadata.entities[i].name
          /\ e.metadata.entities[j].type = memory.metadata.entities[i].type
      sharedKeywords(e) ==
        SelectSeq(memory.metadata.keywords, LAMBDA k : k \in Range(e.metadata.keywords))
      pass1 == SelectSeq(others, sharesEntity)
      pass2 == SelectSeq(others, LAMBDA e : ~sharesEntity(e) /\ Len(sharedKeywords(e)) >= 2)
      related == pass1 \o pass2
  IN Take([i \in DOMAIN related |-> related[i].id], RelatedLimit)

\* the entry storeMemory builds (lines 113-135), before its relations are found
NewEntry(id, type, content, metadata, embedding, importance, t) ==
  LET analyzedMetadata == analyzeContent(content, metadata)
  IN [ id |-> id, type |-> type, content |-> content,
       metadata |-> analyzedMetadata,
       embedding |-> embedding,
       createdAt |-> t, updatedAt |-> t,
       accessCount |-> 0, lastAccessed |-> t,
       importance |-> importance,
       tags |-> analyzedMetadata.keywords,
       relatedEntries |-> << >> ]

\* ------------------------------------------------------------------ search
\* A query: text is the list of terms text.toLowerCase().split(/\s+/) yields,
\* with a term "" before leading and after trailing white space (<<"", "">>
\* for a text of white space only), << >> for an absent or empty text; "" / << >> / -1 stand for an absent
\* type, projectId / tags, timeRange / minImportance, maxResults.
\* A score is kept as its square, the fraction p/q.

\* the keys JSON.stringify(memory.metadata) writes, lower case
JsonKeys == {"source", "projectid", "filereferences", "codereferences", "entities", "type",
             "name", "context", "confidence", "summary", "keywords"}

\* JSON.stringify(memory.metadata).toLowerCase().includes(term)
MetadataIncludes(memory, term) ==
  \/ TextIncludes(memory.metadata.summary, term)
  \/ TextIncludes(memory.metadata.keywords, term)
  \/ \E i \in DOMAIN memory.metadata.entities :
       \/ Includes(memory.metadata.entities[i].type, term)
       \/ Includes(memory.metadata.entities[i].name, term)
  \/ (memory.metadata.projectId # "" /\ Includes(memory.metadata.projectId, term))
  \/ Includes(memory.metadata.source, term)
  \/ \E k \in JsonKeys : Includes(k, term)

\* the score of performTextSearch before the division, in tenths
TextScore(memory, searchTerms) ==
  SumSeq([i \in DOMAIN searchTerms |->
            (IF TextIncludes(memory.content, searchTerms[i]) THEN 10 ELSE 0)
            + (IF MetadataIncludes(memory, searchTerms[i]) THEN 5 ELSE 0)])
  + SumSeq([j \in DOMAIN memory.tags |->
            IF \E i \in DOMAIN searchTerms : Includes(memory.tags[j], searchTerms[i])
            THEN 8 ELSE 0])

\* variant: an entry is a hit only when its content contains every term
performTextSearch_AllTerms(tbl, text) ==
  LET hits == SelectSeq(tbl, LAMBDA m :
                \A i \in DOMAIN text : TextIncludes(m.content, text[i]))
  IN [i \in DOMAIN hits |->
        [ id |-> hits[i].id,
          score |-> LET score == TextScore(hits[i], text)
                    IN [p |-> score * score, q |-> (10 * Len(text)) * (10 * Len(text))],
          matchType |-> "exact" ]]

performTextSearch(tbl, text) ==
  LET hits == SelectSeq(tbl, LAMBDA m : TextScore(m, text) > 0)
  IN [i \in DOMAIN hits |->
        [ id |-> hits[i].id,
          score |-> LET score == TextScore(hits[i], text)
                    IN [p |-> score * score, q |-> (10 * Len(text)) * (10 * Len(text))],
          matchType |-> "exact" ]]

\* variant: every entry with an embedding is a semantic match
performSemanticSearch_Any(cache, tbl, text) ==
  LET queryEmbedding == generateEmbedding(cache, text)
      hits == SelectSeq(tbl, LAMBDA m : HasEmbedding(m))
  IN [i \in DOMAIN hits |->
        [ id |-> hits[i].id,
          score |-> calculateSimilarity(queryEmbedding, hits[i].embedding),
          matchType |-> "semantic" ]]

performSemanticSearch(cache, tbl, text) ==
  LET queryEmbedding == generateEmbedding(cache, text)
      hits == SelectSeq(tbl, LAMBDA m :
                HasEmbedding(m) /\
                ScoreAtLeast(calculateSimilarity(queryEmbedding, m.embedding), SimilarityThreshold))
  IN [i \in DOMAIN hits |->
        [ id |-> hits[i].id,
          score |-> calculateSimilarity(queryEmbedding, hits[i].embedding),
          matchType |-> "semantic" ]]

\* variant: a result passes when it satisfies some filter of the query
PassesFilters_Any(tbl, query, r) ==
  LET e == Lookup(tbl, r.id)
  IN \/ query.type # "" /\ e.type = query.type
     \/ Len(query.tags) > 0 /\ \E i \in DOMAIN query.tags : query.tags[i] \in Range(e.tags)
     \/ query.projectId # "" /\ e.metadata.projectId = query.projectId
     \/ query.timeRange # << >> /\
          e.createdAt >= query.timeRange[1] /\ e.createdAt <= query.timeRange[2]
     \/ query.minImportance # -1 /\ e.importance >= query.minImportance

\* variant: the entities and the keywords of the query are filters too
PassesFilters_EntitiesAndKeywords(tbl, query, r) ==
  LET e == Lookup(tbl, r.id)
  IN /\ query.type # "" => e.type = query.type
     /\ Len(query.tags) > 0 => \E i \in DOMAIN query.tags : query.tags[i] \in Range(e.tags)
     /\ query.projectId # "" => e.metadata.projectId = query.projectId
     /\ query.timeRange # << >> =>
          e.createdAt >= query.timeRange[1] /\ e.createdAt <= query.timeRange[2]
     /\ query.minImportance # -1 => e.importance >= query.minImportance
     /\ query.entities # << >> =>
          \E i \in DOMAIN query.entities, k \in DOMAIN e.metadata.entities :
            e.metadata.entities[k].name = query.entities[i]
     /\ query.keywords # << >> =>
          \E i \in DOMAIN query.keywords : query.keywords[i] \in Range(e.metadata.keywords)

PassesFilters(tbl, query, r) ==
  LET e == Lookup(tbl, r.id)
  IN /\ query.type # "" => e.type = query.type
     /\ Len(query.tags) > 0 => \E i \in DOMAIN query.tags : query.tags[i] \in Range(e.tags)
     /\ query.projectId # "" => e.metadata.projectId = query.projectId
     /\ query.timeRange # << >> =>
          e.createdAt >= query.timeRange[1] /\ e.createdAt <= query.timeRange[2]
     /\ query.minImportance # -1 => e.importance >= query.minImportance

\* variant: the results are sorted by score alone
SortResults_ByScore(tbl, rs) ==
  LET ranked == << >> \o [i \in DOMAIN rs |->
                            [v |-> rs[i], num |-> rs[i].score.p, den |-> rs[i].score.q]]
      sorted == StableSort(ranked)
  IN [i \in DOMAIN sorted |-> sorted[i].v]

\* filteredResults.sort((a, b) => b.score * b.entry.importance - a.score * a.entry.importance);
\* the square of score * importance is (p * importance^2) / q
SortResults(tbl, rs) ==
  LET importance(r) == Lookup(tbl, r.id).importance
      ranked == << >> \o [i \in DOMAIN rs |->
                            [v |-> rs[i],
                             num |-> rs[i].score.p * importance(rs[i]) * importance(rs[i]),
                             den |-> rs[i].score.q]]
      sorted == StableSort(ranked)
  IN [i \in DOMAIN sorted |-> sorted[i].v]

\* getRelatedMemories: the inner loop over one result's relatedEntries
RECURSIVE RelatedOfResult(_, _, _, _)
RelatedOfResult(tbl, result, relatedIds, processedIds) ==
  IF relatedIds = <<>> THEN [out |-> <<>>, processed |-> processedIds]
  ELSE LET rid == Head(relatedIds)
       IN IF rid \in processedIds \/ ~Has(tbl, rid)
          THEN RelatedOfResult(tbl, result, Tail(relatedIds), processedIds)
          ELSE LET more == RelatedOfResult(tbl, result, Tail(relatedIds), processedIds \cup {rid})
               IN [ out |-> << [ id |-> rid,
                                 score |-> [p |-> result.score.p * 49, q |-> result.score.q * 100],
                                 matchType |-> "related" ] >> \o more.out,
                    processed |-> more.processed ]

RECURSIVE RelatedOfResults(_, _, _)
RelatedOfResults(tbl, results, processedIds) ==
  IF results = <<>> THEN <<>>
  ELSE LET one == RelatedOfResult(tbl, Head(results),
                                  Lookup(tbl, Head(results).id).relatedEntries, processedIds)
       IN one.out \o RelatedOfResults(tbl, Tail(results), one.processed)

\* variant: processedIds starts empty
getRelatedMemories_Repeated(tbl, results) == RelatedOfResults(tbl, results, {})

getRelatedMemories(tbl, results) ==
  RelatedOfResults(tbl, results, {results[i].id : i \in DOMAIN results})

\* variant: an entry matched by text is not added again as a semantic match
SearchResults_Deduplicated(cache, tbl, query) ==
  LET textResults == IF query.text # << >> THEN performTextSearch(tbl, query.text) ELSE <<>>
      semanticResults == IF query.semanticSearch /\ query.text # << >>
                         THEN performSemanticSearch(cache, tbl, query.text) ELSE <<>>
      results == textResults \o
                 SelectSeq(semanticResults,
                           LAMBDA r : \A i \in DOMAIN textResults : textResults[i].id # r.id)
      filteredResults == SelectSeq(results, LAMBDA r : PassesFilters(tbl, query, r))
      maxResults == IF query.maxResults \in {-1, 0} THEN DefaultMaxResults
                    ELSE query.maxResults
      kept == Take(SortResults(tbl, filteredResults), maxResults)
  IN IF query.includeRelated THEN kept \o getRelatedMemories(tbl, kept) ELSE kept

\* variant: an empty text is searched for, as the one term ""
SearchResults_EmptyTextSearched(cache, tbl, query) ==
  LET textResults == performTextSearch(tbl, IF query.text # << >> THEN query.text ELSE <<"">>)
      semanticResults == IF query.semanticSearch /\ query.text # << >>
                         THEN performSemanticSearch(cache, tbl, query.text) ELSE <<>>
      results == textResults \o semanticResults
      filteredResults == SelectSeq(results, LAMBDA r : PassesFilters(tbl, query, r))
      maxResults == IF query.maxResults \in {-1, 0} THEN DefaultMaxResults
                    ELSE query.maxResults
      kept == Take(SortResults(tbl, filteredResults), maxResults)
  IN IF query.includeRelated THEN kept \o getRelatedMemories(tbl, kept) ELSE kept

\* the list searchMemories returns (lines 229-290)
SearchResults(cache, tbl, query) ==
  LET textResults == IF query.text # << >> THEN performTextSearch(tbl, query.text) ELSE <<>>
      semanticResults == IF query.semanticSearch /\ query.text # << >>
                         THEN performSemanticSearch(cache, tbl, query.text) ELSE <<>>
      results == textResults \o semanticResults
      filteredResults == SelectSeq(results, LAMBDA r : PassesFilters(tbl, query, r))
      maxResults == IF query.maxResults \in {-1, 0} THEN DefaultMaxResults
                    ELSE query.maxResults
      kept == Take(SortResults(tbl, filteredResults), maxResults)
  IN IF query.includeRelated THEN kept \o getRelatedMemories(tbl, kept) ELSE kept

\* variant: the count goes up, the time of the access is not recorded
touch_CountOnly(memory, t) == [memory EXCEPT !.accessCount = @ + 1]

\* variant: the access is recorded as an update too
touch_AndUpdated(memory, t) ==
  [memory EXCEPT !.accessCount = @ + 1, !.lastAccessed = t, !.updatedAt = t]

\* variant: the access is stamped with the time of creation
touch_AtCreation(memory, t) ==
  [memory EXCEPT !.accessCount = @ + 1, !.lastAccessed = memory.createdAt]

\* result.entry.accessCount++; result.entry.lastAccessed = Date.now()
touch(memory, t) ==
  [memory EXCEPT !.accessCount = @ + 1, !.lastAccessed = t]

\* filteredResults.forEach(...): once per result of the list
RECURSIVE TouchAll(_, _, _)
TouchAll(tbl, results, t) ==
  IF results = <<>> THEN tbl
  ELSE TouchAll(MapSet(tbl, touch(Lookup(tbl, Head(results).id), t)), Tail(results), t)

\* ------------------------------------------------------------------ inputs
NoMetadata ==
  [ source |-> "", projectId |-> "", entities |-> << >>, summary |-> << >>,
    keywords |-> << >>, confidence |-> -1 ]

\* an entry as an earlier session left it in the persistent store
Persisted(id, type, content, importance, createdAt, accessCount, lastAccessed, related) ==
  [ NewEntry(id, type, content, NoMetadata, computeSimpleEmbedding(content),
             importance, createdAt) EXCEPT
      !.accessCount = accessCount, !.lastAccessed = lastAccessed, !.relatedEntries = related ]

\* an entry that was saved without the optional embedding
Unembedded(memory) == [memory EXCEPT !.embedding = NoEmbedding]

\* The persistent store the session starts from.
\* Scenario: importance 0.9 / importance 0.1, never accessed / accessed 5 times,
\* all last accessed 40 days before the start.
\* Boundaries: last accessed exactly 30 days before the start / importance 0.3 /
\* accessCount 3 / an entry inside all three limits.
\* Embeddings: one entry saved without an embedding, one whose only word is a
\* stop word of the embedder, so that its embedding is the zero vector.
\* Relations: entry 4 shares two keywords with entry 1, entry 6 an entity each
\* with entries 3 and 5, of which 5 can be evicted.
Fixtures ==
  { << Persisted(1, "research", <<"react", "api">>, 9, StartDay - 40, 0, StartDay - 40, << >>),
       Persisted(2, "conversation", <<"cache", "test">>, 1, StartDay - 40, 0, StartDay - 40, << >>),
       Unembedded(Persisted(3, "code-analysis", <<"query">>, 5, StartDay - 40, 5, StartDay - 40, << >>)),
       Persisted(4, "conversation", <<"the">>, 5, StartDay - 10, 0, StartDay - 10, << >>) >>,
    << Persisted(1, "conversation", <<"cache", "test">>, 2, StartDay - 40, 2, StartDay - 30, << >>),
       Persisted(2, "research", <<"query">>, 3, StartDay - 40, 0, StartDay - 40, << >>),
       Persisted(3, "pattern", <<"react">>, 2, StartDay - 35, 3, StartDay - 35, << >>),
       Persisted(4, "decision", <<"cache", "test", "query">>, 2, StartDay - 31, 2, StartDay - 31, <<1>>),
       Persisted(5, "conversation", <<"api">>, 1, StartDay - 40, 0, StartDay - 40, << >>),
       Persisted(6, "research", <<"query", "api", "react">>, 5, StartDay - 20, 1, StartDay - 20,
                 <<3, 5>>) >> }

StoreInputs ==
  { [type |-> "conversation", content |-> <<"cache", "test", "query">>,
     metadata |-> NoMetadata, importance |-> 5],
    [type |-> "research", content |-> <<"cache", "test">>,
     metadata |-> [ source |-> "research", projectId |-> "p1",
                    entities |-> << [type |-> "concept", name |-> "view"] >>,
                    summary |-> <<"api">>, keywords |-> <<"test", "node">>,
                    confidence |-> 90 ],
     importance |-> 2],
    [type |-> "decision", content |-> <<"c++11">>,
     metadata |-> NoMetadata, importance |-> 5] }

NoQuery ==
  [ text |-> << >>, type |-> "", tags |-> << >>, projectId |-> "", timeRange |-> << >>,
    entities |-> << >>, keywords |-> << >>,
    minImportance |-> -1, maxResults |-> -1, includeRelated |-> FALSE, semanticSearch |-> FALSE ]

Queries ==
  { [NoQuery EXCEPT !.text = <<"cache", "test">>, !.semanticSearch = TRUE],
    [NoQuery EXCEPT !.text = <<"query">>, !.includeRelated = TRUE],
    [NoQuery EXCEPT !.text = <<"test", "query">>],
    [NoQuery EXCEPT !.text = <<"test", "test">>],
    [NoQuery EXCEPT !.text = <<"cache", "test", "query", "the">>, !.semanticSearch = TRUE],
    [NoQuery EXCEPT !.text = <<"cache", "test">>, !.semanticSearch = TRUE,
                    !.type = "conversation", !.minImportance = 2],
    [NoQuery EXCEPT !.text = <<"test">>, !.tags = <<"node", "query">>,
                    !.timeRange = <<StartDay - 31, StartDay>>],
    [NoQuery EXCEPT !.text = <<"test">>, !.projectId = "p1"],
    [NoQuery EXCEPT !.text = <<"test">>, !.maxResults = 0],
    [NoQuery EXCEPT !.text = <<"cache", "test">>, !.semanticSearch = TRUE, !.maxResults = 1],
    [NoQuery EXCEPT !.semanticSearch = TRUE, !.includeRelated = TRUE],
    [NoQuery EXCEPT !.type = "conversation", !.tags = <<"test">>, !.minImportance = 2,
                    !.maxResults = 1, !.semanticSearch = TRUE, !.includeRelated = TRUE],
    [NoQuery EXCEPT !.text = <<"cache", "test">>, !.semanticSearch = TRUE,
                    !.entities = <<"view">>, !.keywords = <<"node">>],
    [NoQuery EXCEPT !.text = <<"", "compile">>],
    [NoQuery EXCEPT !.text = <<"", "">>] }

\* the ids get is called with: one never issued, the first, the latest
GetIds == {0, 1, nextId - 1}

\* ----------------------------------------------------------------- actions
\* what the last call returned; id is the id it was called with or has issued,
\* query the query of a search
Return(op, ok, id, results) ==
  [op |-> op, ok |-> ok, id |-> id, results |-> results, query |-> NoQuery]

Idle == [pc |-> "idle", mem |-> << >>]

NoOptimize == [pc |-> "idle", toRemove |-> << >>, removed |-> {}, scanned |-> << >>, cutoff |-> 0]

\* the state the constructor leaves: empty table and indexes, loadMemories()
\* called and not awaited
Init ==
  /\ persisted \in Fixtures
  /\ memories = << >>
  /\ index = initializeIndex
  /\ now = StartDay
  /\ stats = initializeStats(StartDay)
  /\ nextId = Len(persisted) + 1
  /\ load = [pc |-> "pending", snap |-> << >>]
  /\ store = Idle
  /\ opt = NoOptimize
  /\ ret = Return("new", TRUE, 0, << >>)
  /\ calls = 0
  /\ ioFailed = FALSE
  /\ embeddingCache = << >>

\* persistence.loadMemories() resolves with what the store holds
LoadRead ==
  /\ load.pc = "pending"
  /\ load' = [pc |-> "read", snap |-> persisted]
  /\ ret' = Return("load-read", TRUE, 0, << >>)
  /\ UNCHANGED <<memories, index, stats, persisted, now, nextId, store, opt, calls, ioFailed, embeddingCache>>

\* persistence.loadMemories() catches its error and resolves with []
LoadReadFailed ==
  /\ load.pc = "pending"
  /\ load' = [pc |-> "read", snap |-> << >>]
  /\ ioFailed' = TRUE
  /\ ret' = Return("load-read", FALSE, 0, << >>)
  /\ UNCHANGED <<memories, index, stats, persisted, now, nextId, store, opt, calls, embeddingCache>>

RECURSIVE MapSetAll(_, _)
MapSetAll(tbl, mems) ==
  IF mems = <<>> THEN tbl ELSE MapSetAll(MapSet(tbl, Head(mems)), Tail(mems))

\* variant: the load files every entry of the table, not the loaded ones only
LoadApply_WholeTable ==
  /\ load.pc = "read"
  /\ memories' = MapSetAll(memories, load.snap)
  /\ index' = updateIndexAll(index, memories')
  /\ stats' = updateStats(stats, memories', index')
  /\ load' = [pc |-> "done", snap |-> << >>]
  /\ ret' = Return("load", TRUE, 0, << >>)
  /\ UNCHANGED <<persisted, now, nextId, store, opt, calls, ioFailed, embeddingCache>>

\* loadMemories after its await: set and index every loaded entry, then stats
LoadApply ==
  /\ load.pc = "read"
  /\ memories' = MapSetAll(memories, load.snap)
  /\ index' = updateIndexAll(index, load.snap)
  /\ stats' = updateStats(stats, memories', index')
  /\ load' = [pc |-> "done", snap |-> << >>]
  /\ ret' = Return("load", TRUE, 0, << >>)
  /\ UNCHANGED <<persisted, now, nextId, store, opt, calls, ioFailed, embeddingCache>>

\* variant: the entry is committed before the enrichment step raises
StoreCall_CommitFirst(in) ==
  /\ store.pc = "idle"
  /\ calls' = calls + 1
  /\ IF analyzeContentThrows(in.content)
     THEN LET memory == NewEntry(nextId, in.type, in.content, in.metadata, NoEmbedding,
                                 in.importance, now)
          IN /\ memories' = MapSet(memories, memory)
             /\ index' = updateIndex(index, memory)
             /\ nextId' = nextId + 1
             /\ ret' = Return("store", FALSE, 0, << >>)
             /\ UNCHANGED <<stats, persisted, now, load, store, opt, ioFailed, embeddingCache>>
     ELSE LET embedding == generateEmbedding(embeddingCache, in.content)
              entry == NewEntry(nextId, in.type, in.content, in.metadata, embedding,
                                in.importance, now)
              memory == [entry EXCEPT !.relatedEntries = findRelatedMemories(memories, entry)]
          IN /\ memories' = MapSet(memories, memory)
             /\ index' = updateIndex(index, memory)
             /\ store' = [pc |-> "saving", mem |-> memory]
             /\ nextId' = nextId + 1
             /\ ret' = Return("store-await", TRUE, memory.id, << >>)
             /\ embeddingCache' = cacheAfter(embeddingCache, in.content)
             /\ UNCHANGED <<stats, persisted, now, load, opt, ioFailed>>

\* storeMemory up to its await of persistence.saveMemory; analyzeContent may raise
StoreCall(in) ==
  /\ store.pc = "idle"
  /\ calls' = calls + 1
  /\ IF analyzeContentThrows(in.content)
     THEN /\ ret' = Return("store", FALSE, 0, << >>)
          /\ UNCHANGED <<memories, index, stats, persisted, now, nextId, load, store, opt, ioFailed, embeddingCache>>
     ELSE LET embedding == generateEmbedding(embeddingCache, in.content)
              entry == NewEntry(nextId, in.type, in.content, in.metadata, embedding,
                                in.importance, now)
              memory == [entry EXCEPT !.relatedEntries = findRelatedMemories(memories, entry)]
          IN /\ memories' = MapSet(memories, memory)
             /\ index' = updateIndex(index, memory)
             /\ store' = [pc |-> "saving", mem |-> memory]
             /\ nextId' = nextId + 1
             /\ ret' = Return("store-await", TRUE, memory.id, << >>)
             /\ embeddingCache' = cacheAfter(embeddingCache, in.content)
             /\ UNCHANGED <<stats, persisted, now, load, opt, ioFailed>>

\* the object `memory` as the running storeMemory call holds it
StoredObject == IF Has(memories, store.mem.id) THEN Lookup(memories, store.mem.id) ELSE store.mem

\* saveMemory resolved: updateStats, created++, return memory. The read of
\* loadMemories is requested in the constructor, before any put, and the store
\* serves its requests in that order: a put completes after the read
StoreSaved ==
  /\ store.pc = "saving"
  /\ load.pc # "pending"
  /\ persisted' = MapSet(persisted, StoredObject)
  /\ stats' = [updateStats(stats, memories, index) EXCEPT !.created = @ + 1]
  /\ store' = Idle
  /\ ret' = Return("store", TRUE, store.mem.id, << >>)
  /\ UNCHANGED <<memories, index, now, nextId, load, opt, calls, ioFailed, embeddingCache>>

\* variant: a failed save takes the entry back out of the table
StoreSaveFailed_Rollback ==
  /\ store.pc = "saving"
  /\ memories' = MapDelete(memories, store.mem.id)
  /\ store' = Idle
  /\ ioFailed' = TRUE
  /\ ret' = Return("store", FALSE, store.mem.id, << >>)
  /\ UNCHANGED <<index, stats, persisted, now, nextId, load, opt, calls, embeddingCache>>

\* saveMemory rejected: storeMemory rejects with the error
StoreSaveFailed ==
  /\ store.pc = "saving"
  /\ store' = Idle
  /\ ioFailed' = TRUE
  /\ ret' = Return("store", FALSE, store.mem.id, << >>)
  /\ UNCHANGED <<memories, index, stats, persisted, now, nextId, load, opt, calls, embeddingCache>>

getMemory(id) ==
  /\ calls' = calls + 1
  /\ IF Has(memories, id)
     THEN /\ memories' = MapSet(memories, touch(Lookup(memories, id), now))
          /\ stats' = [stats EXCEPT !.accessed = @ + 1]
          /\ ret' = Return("get", TRUE, id, << >>)
     ELSE /\ ret' = Return("get", FALSE, id, << >>)
          /\ UNCHANGED <<memories, stats>>
  /\ UNCHANGED <<index, persisted, now, nextId, load, store, opt, ioFailed, embeddingCache>>

searchMemories(query) ==
  \E results \in {SearchResults(embeddingCache, memories, query)} :
     /\ calls' = calls + 1
     /\ memories' = TouchAll(memories, results, now)
     /\ stats' = [stats EXCEPT !.accessed = @ + Len(results)]
     /\ ret' = [Return("search", TRUE, 0, results) EXCEPT !.query = query]
     /\ embeddingCache' = IF query.semanticSearch /\ query.text # << >>
                          THEN cacheAfter(embeddingCache, query.text)
                          ELSE embeddingCache
     /\ UNCHANGED <<index, persisted, now, nextId, load, store, opt, ioFailed>>

\* memory.importance < 0.3 && memory.lastAccessed < cutoffDate && memory.accessCount < 3
Evictable(memory, cutoffDate) ==
  /\ memory.importance < ImportanceFloor
  /\ memory.lastAccessed < cutoffDate
  /\ memory.accessCount < AccessFloor

\* variant: the rebuild skips the entries the recent list already names
Rebuilt_OnlyNew(tbl) ==
  updateIndexAll(initializeIndex, SelectSeq(tbl, LAMBDA m : m.id \notin Range(index.recent)))

\* variant: the rebuild files the table's entries on top of the old indexes
Rebuilt_OnOld(tbl) == updateIndexAll(index, tbl)

\* variant: the rebuild files only the entries the scan of the call has seen
Rebuilt_FromScan(tbl) ==
  updateIndexAll(initializeIndex, SelectSeq(tbl, LAMBDA m : m.id \in Ids(opt.scanned)))

\* lines 556-560: the indexes reinitialised and rebuilt from the table
Rebuilt(tbl) == updateIndexAll(initializeIndex, tbl)

\* optimizeMemory up to its first await: the scan, and the first delete if any
OptimizeCall ==
  /\ opt.pc = "idle"
  /\ calls' = calls + 1
  /\ LET cutoffDate == now - ThirtyDays
         marked == SelectSeq(memories, LAMBDA m : Evictable(m, cutoffDate))
         toRemove == [i \in DOMAIN marked |-> marked[i].id]
     IN IF toRemove = << >>
        THEN /\ index' = Rebuilt(memories)
             /\ stats' = [updateStats(stats, memories, index') EXCEPT !.lastOptimized = now]
             /\ opt' = [pc |-> "idle", toRemove |-> toRemove, removed |-> {},
                        scanned |-> memories, cutoff |-> cutoffDate]
             /\ ret' = Return("optimize", TRUE, 0, << >>)
             /\ UNCHANGED memories
        ELSE /\ memories' = MapDelete(memories, toRemove[1])
             /\ opt' = [pc |-> "deleting", toRemove |-> toRemove, removed |-> {toRemove[1]},
                        scanned |-> memories, cutoff |-> cutoffDate]
             /\ ret' = Return("optimize-await", TRUE, toRemove[1], << >>)
             /\ UNCHANGED <<index, stats>>
  /\ UNCHANGED <<persisted, now, nextId, load, store, ioFailed, embeddingCache>>

\* variant: the eviction removes the entries from the table only
OptimizeDeleted_TableOnly ==
  /\ opt.pc = "deleting"
  /\ load.pc # "pending"
  /\ LET done == Cardinality(opt.removed)
     IN /\ persisted' = persisted
        /\ IF done < Len(opt.toRemove)
           THEN /\ memories' = MapDelete(memories, opt.toRemove[done + 1])
                /\ opt' = [opt EXCEPT !.removed = @ \cup {opt.toRemove[done + 1]}]
                /\ ret' = Return("optimize-await", TRUE, opt.toRemove[done + 1], << >>)
                /\ UNCHANGED <<index, stats>>
           ELSE /\ index' = Rebuilt(memories)
                /\ stats' = [updateStats(stats, memories, index') EXCEPT !.lastOptimized = now]
                /\ opt' = [opt EXCEPT !.pc = "idle"]
                /\ ret' = Return("optimize", TRUE, 0, << >>)
                /\ UNCHANGED memories
  /\ UNCHANGED <<now, nextId, load, store, calls, ioFailed, embeddingCache>>

\* deleteMemory resolved: the next delete, or the rebuild after the last one
OptimizeDeleted ==
  /\ opt.pc = "deleting"
  /\ load.pc # "pending"
  /\ LET done == Cardinality(opt.removed)
     IN /\ persisted' = MapDelete(persisted, opt.toRemove[done])
        /\ IF done < Len(opt.toRemove)
           THEN /\ memories' = MapDelete(memories, opt.toRemove[done + 1])
                /\ opt' = [opt EXCEPT !.removed = @ \cup {opt.toRemove[done + 1]}]
                /\ ret' = Return("optimize-await", TRUE, opt.toRemove[done + 1], << >>)
                /\ UNCHANGED <<index, stats>>
           ELSE /\ index' = Rebuilt(memories)
                /\ stats' = [updateStats(stats, memories, index') EXCEPT !.lastOptimized = now]
                /\ opt' = [opt EXCEPT !.pc = "idle"]
                /\ ret' = Return("optimize", TRUE, 0, << >>)
                /\ UNCHANGED memories
  /\ UNCHANGED <<now, nextId, load, store, calls, ioFailed, embeddingCache>>

\* deleteMemory rejected: optimizeMemory rejects where it stands
OptimizeDeleteFailed ==
  /\ opt.pc = "deleting"
  /\ opt' = [opt EXCEPT !.pc = "idle"]
  /\ ioFailed' = TRUE
  /\ ret' = Return("optimize", FALSE, 0, << >>)
  /\ UNCHANGED <<memories, index, stats, persisted, now, nextId, load, store, calls, embeddingCache>>

\* a day passes
Tick ==
  /\ calls' = calls + 1
  /\ now' = now + 1
  /\ ret' = Return("tick", TRUE, 0, << >>)
  /\ UNCHANGED <<memories, index, stats, persisted, nextId, load, store, opt, ioFailed, embeddingCache>>

Store == calls < MaxCalls /\ \E in \in StoreInputs : StoreCall(in)

Get == calls < MaxCalls /\ \E id \in GetIds : getMemory(id)

Search == calls < MaxCalls /\ \E query \in Queries : searchMemories(query)

Optimize == calls < MaxCalls /\ OptimizeCall

Clock == calls < MaxCalls /\ Tick

Next ==
  \/ LoadRead \/ LoadReadFailed \/ LoadApply
  \/ Store \/ StoreSaved \/ StoreSaveFailed
  \/ Get \/ Search
  \/ Optimize \/ OptimizeDeleted \/ OptimizeDeleteFailed
  \/ Clock

Spec == Init /\ [][Next]_vars

\* ------------------------------------------------------------------ claims
Buckets == {"byType", "byTag", "byProject", "byEntity", "byKeyword", "byDay", "byWeek", "byMonth"}

\* the id is in the bucket the map keeps under the key
InBucket(map, key, id) == key \in DOMAIN map /\ id \in Range(map[key])

\* every bucket the entry's fields imply holds its id
Filed(idx, e) ==
  /\ InBucket(idx.byType, e.type, e.id)
  /\ \A i \in DOMAIN e.tags : InBucket(idx.byTag, e.tags[i], e.id)
  /\ e.metadata.projectId # "" => InBucket(idx.byProject, e.metadata.projectId, e.id)
  /\ \A i \in DOMAIN e.metadata.entities :
       InBucket(idx.byEntity, <<e.metadata.entities[i].type, e.metadata.entities[i].name>>, e.id)
  /\ \A i \in DOMAIN e.metadata.keywords : InBucket(idx.byKeyword, e.metadata.keywords[i], e.id)
  /\ InBucket(idx.byDay, dayKey(e.createdAt), e.id)
  /\ InBucket(idx.byWeek, weekKey(e.createdAt), e.id)
  /\ InBucket(idx.byMonth, monthKey(e.createdAt), e.id)

\* the ids the buckets of the secondary indexes hold
BucketIds(idx) ==
  UNION {UNION {Range(idx[b][k]) : k \in DOMAIN idx[b]} : b \in Buckets}

IndexConsistent ==
  /\ \A i \in DOMAIN memories : Filed(index, memories[i])
  /\ BucketIds(index) \subseteq Ids(memories)

Quiescent == store.pc = "idle" /\ opt.pc = "idle"

\* C1: whenever no store or optimize call is in progress and no persistence
\* call has failed, every entry of the table is in every bucket its fields
\* imply, and no bucket holds an id that is not in the table.
C1_IndexConsistency == (Quiescent /\ ~ioFailed) => IndexConsistent

\* an optimize that evicted has returned, with an entry stored under a project
\* in the table
C1_Witness ==
  /\ Quiescent /\ ~ioFailed
  /\ ret.op = "optimize" /\ opt.removed # {}
  /\ \E i \in DOMAIN memories : memories[i].metadata.projectId # ""

\* C2: when optimize has returned, an entry of the table it scanned has been
\* removed by it if and only if importance < 0.3, lastAccessed < cutoff and
\* accessCount < 3 all held when it was scanned.
C2_EvictionConjunction ==
  ret.op = "optimize" =>
    \A i \in DOMAIN opt.scanned :
      (opt.scanned[i].id \in opt.removed) <=>
        ( /\ opt.scanned[i].importance < 3
          /\ opt.scanned[i].lastAccessed < opt.cutoff
          /\ opt.scanned[i].accessCount < 3 )

ResultIds(results) == {results[i].id : i \in DOMAIN results}

\* C3: a search step raises the accessCount of every entry among its results
\* by exactly 1.
C3_AccessOncePerSearch ==
  [][ ret'.op = "search" =>
        \A id \in ResultIds(ret'.results) :
          Lookup(memories', id).accessCount = Lookup(memories, id).accessCount + 1 ]_vars

\* optimize has deleted some of the entries it marked and not yet the others
PartlyEvicted ==
  /\ opt.pc = "deleting"
  /\ \E id \in Range(opt.toRemove) : id \notin opt.removed

\* C4: no get returns an entry that an optimize call in progress has marked
\* for removal while others it marked are already gone from the table, and no
\* search is answered from such a table.
C4_NoHalfEvictedRead ==
  [][ /\ (ret'.op = "get" /\ ret'.ok) => ~(PartlyEvicted /\ ret'.id \in Range(opt.toRemove))
      /\ (ret'.op = "search" /\ ret'.results # << >>) => ~PartlyEvicted ]_vars

\* C5: when a store call fails on its persistence write, the entry is in the
\* table and in its buckets, a search for a word of it finds it, and the call
\* reports the failure.
C5_StoreFailureKeepsEntry ==
  (ret.op = "store" /\ ret.id # 0 /\ ~ret.ok) =>
    /\ Has(memories, ret.id)
    /\ Filed(index, Lookup(memories, ret.id))
    /\ ret.id \in DOMAIN index.embeddings
    /\ ret.id \in ResultIds(SearchResults(embeddingCache, memories,
         [NoQuery EXCEPT !.text = <<Lookup(memories, ret.id).content[1]>>]))

\* a store has reported the failure of its save, with other entries in the table
C5_Witness ==
  /\ ret.op = "store" /\ ret.id # 0 /\ ~ret.ok
  /\ Has(memories, ret.id)
  /\ Len(memories) > 1

\* C6: once optimize has returned with the error of a failed delete, no bucket
\* and no vector refers to an entry that is not in the table.
C6_ConsistentAfterDeleteFailure ==
  (ret.op = "optimize" /\ ~ret.ok) =>
    /\ BucketIds(index) \subseteq Ids(memories)
    /\ DOMAIN index.embeddings \subseteq Ids(memories)

\* C7: a store call whose content analysis raises still creates the entry and
\* commits it to the table.
C7_EnrichmentFailureNotFatal ==
  [][ \A in \in StoreInputs :
        (StoreCall(in) /\ analyzeContentThrows(in.content)) =>
          (ret'.ok /\ Len(memories') = Len(memories) + 1) ]_vars

\* C8: get on an id of the table returns the entry, with accessCount one higher
\* and lastAccessed the current time, and changes nothing else; get on an id
\* that is not in the table returns not-found and changes nothing.
C8_Get ==
  [][ ret'.op = "get" =>
        IF Has(memories, ret'.id)
        THEN /\ ret'.ok
             /\ Len(memories') = Len(memories)
             /\ \A i \in DOMAIN memories :
                  memories'[i] =
                    IF memories[i].id = ret'.id
                    THEN [memories[i] EXCEPT !.accessCount = memories[i].accessCount + 1,
                                             !.lastAccessed = now]
                    ELSE memories[i]
             /\ UNCHANGED index
        ELSE /\ ~ret'.ok
             /\ UNCHANGED <<memories, index, stats>> ]_vars

\* a get has just found an entry that had been read before
C8_Witness ==
  /\ ret.op = "get" /\ ret.ok
  /\ Has(memories, ret.id)
  /\ Lookup(memories, ret.id).accessCount >= 2
  /\ Lookup(memories, ret.id).lastAccessed = now

\* entries stored by this session
StoredHere(e) == e.createdAt >= StartDay

SharedKeywords(a, b) == Range(a.metadata.keywords) \cap Range(b.metadata.keywords)

SharedEntities(a, b) == Range(a.metadata.entities) \cap Range(b.metadata.entities)

\* two entries stored one after the other, with two keywords and no entity in common
KeywordPair(a, b) ==
  /\ StoredHere(a) /\ StoredHere(b)
  /\ a.id < b.id
  /\ Cardinality(SharedKeywords(a, b)) >= 2
  /\ SharedEntities(a, b) = {}

\* C9, as claimed: once both store calls have completed, each of the two is in
\* the other's relatedEntries.
C9_RelationSymmetry ==
  store.pc = "idle" =>
    \A i, j \in DOMAIN memories :
      KeywordPair(memories[i], memories[j]) =>
        /\ memories[i].id \in Range(memories[j].relatedEntries)
        /\ memories[j].id \in Range(memories[i].relatedEntries)

\* C9, amended: the entry stored second has the first in its relatedEntries
\* (unless 10 candidates came before it); the first does not have the second.
C9_RelationOneWay ==
  store.pc = "idle" =>
    \A i, j \in DOMAIN memories :
      KeywordPair(memories[i], memories[j]) =>
        /\ \/ memories[i].id \in Range(memories[j].relatedEntries)
           \/ Len(memories[j].relatedEntries) = RelatedLimit
        /\ memories[j].id \notin Range(memories[i].relatedEntries)

\* both stores of such a pair have completed, the second naming the first
C9_Witness ==
  /\ store.pc = "idle"
  /\ \E i, j \in DOMAIN memories :
       /\ KeywordPair(memories[i], memories[j])
       /\ memories[i].id \in Range(memories[j].relatedEntries)
\* ------------------------------------------------- the recent list at its limit
\* entries in the table when the stores stop
MaxRecentEntries == 102

RecentInput ==
  [type |-> "research", content |-> <<"cache", "test", "api">>,
   metadata |-> [NoMetadata EXCEPT !.projectId = "p1"], importance |-> 2]

RecentQuery == [NoQuery EXCEPT !.text = <<"query">>, !.includeRelated = TRUE]

StoreRecent ==
  /\ load.pc = "done"
  /\ Len(memories) < MaxRecentEntries
  /\ StoreCall(RecentInput)

\* reads are taken once the list is full, one after each store
ReadsDue == ret.op = "store" /\ Len(memories) >= RecentLimit

GetRecent == ReadsDue /\ \E id \in {1, nextId - 1} : getMemory(id)

SearchRecent == ReadsDue /\ searchMemories(RecentQuery)

NextRecent ==
  \/ LoadRead \/ LoadApply
  \/ StoreRecent \/ StoreSaved
  \/ GetRecent \/ SearchRecent

SpecRecent == Init /\ [][NextRecent]_vars

\* C10: the recent list never holds more than 100 ids; a store's commit puts
\* the new id first, followed by the previous contents in their order, the
\* oldest dropped when there would be more than 100; get and search leave the
\* list as it is.
C10_RecentList ==
  [][ /\ Len(index'.recent) <= 100
      /\ ret'.op = "store-await" =>
            /\ index'.recent[1] = ret'.id
            /\ Len(index'.recent) = IF Len(index.recent) < 100 THEN Len(index.recent) + 1 ELSE 100
            /\ \A k \in 2..Len(index'.recent) : index'.recent[k] = index.recent[k - 1]
      /\ ret'.op \in {"get", "search"} => index'.recent = index.recent ]_vars

\* a store has committed into a full list and the oldest id has been dropped
C10_Witness ==
  /\ ret.op = "store-await"
  /\ Len(index.recent) = 100
  /\ Len(memories) > 100
  /\ index.recent[1] = ret.id
  /\ 1 \notin Range(index.recent)
\* ---------------------------------------------------------------- C11 - C20
\* the semantic index holds exactly the vectors of the table's entries that have one
EmbeddingsInStep ==
  /\ DOMAIN index.embeddings =
       {memories[i].id : i \in {j \in DOMAIN memories : HasEmbedding(memories[j])}}
  /\ \A i \in DOMAIN memories :
       HasEmbedding(memories[i]) => index.embeddings[memories[i].id] = memories[i].embedding

\* C11: when an optimize call has completed its delete-and-rebuild cycle, the
\* keys of the semantic index are exactly the ids of the table's entries that
\* have an embedding, each mapped to that entry's embedding.
C11_EmbeddingsInStep == (ret.op = "optimize" /\ ret.ok) => EmbeddingsInStep

\* an optimize has completed that removed an entry with a vector, and the
\* table holds an entry without one
C11_Witness ==
  /\ ret.op = "optimize" /\ ret.ok
  /\ \E i \in DOMAIN opt.scanned :
       opt.scanned[i].id \in opt.removed /\ HasEmbedding(opt.scanned[i])
  /\ \E i \in DOMAIN memories : ~HasEmbedding(memories[i])

\* the same bucket keys with the same ids under each, and the same vector keys
SameMembership(a, b) ==
  /\ \A n \in Buckets :
       /\ DOMAIN a[n] = DOMAIN b[n]
       /\ \A k \in DOMAIN a[n] : Range(a[n][k]) = Range(b[n][k])
  /\ DOMAIN a.embeddings = DOMAIN b.embeddings

CountByType(k) == IF k \in DOMAIN stats.entriesByType THEN stats.entriesByType[k] ELSE 0

\* the stats count the table's entries, in all and kind by kind
StatsCurrent ==
  /\ stats.totalEntries = Len(memories)
  /\ \A k \in {memories[i].type : i \in DOMAIN memories} \cup DOMAIN stats.entriesByType :
       CountByType(k) = Cardinality({i \in DOMAIN memories : memories[i].type = k})

\* C13: whenever a store or optimize call has returned, with success or with
\* a persistence error, totalEntries is the number of entries of the table and
\* entriesByType[k] the number of its entries of kind k.
C13_StatsNeverStale == ret.op \in {"store", "optimize"} => StatsCurrent

\* the accessCount the table holds for an id
AccessOf(id) == Lookup(memories, id).accessCount

\* mostAccessedEntries names min(10, size) distinct entries of the table, none
\* accessed less than an entry it leaves out, in descending accessCount order
MostAccessedCurrent ==
  LET top == stats.mostAccessedEntries
  IN /\ Len(top) = (IF Len(memories) < 10 THEN Len(memories) ELSE 10)
     /\ Range(top) \subseteq Ids(memories)
     /\ Cardinality(Range(top)) = Len(top)
     /\ \A i, j \in DOMAIN top : i < j => AccessOf(top[i]) >= AccessOf(top[j])
     /\ \A i \in DOMAIN top : \A id \in Ids(memories) \ Range(top) :
          AccessOf(top[i]) >= AccessOf(id)

\* C14: after a get or search call that raised an access counter (with the
\* table loaded and no other call in progress), mostAccessedEntries lists the
\* up to 10 entries of the table with the highest accessCount, in descending
\* order.
C14_MostAccessedCurrent ==
  ( /\ \/ ret.op = "get" /\ ret.ok
       \/ ret.op = "search" /\ ret.results # << >>
    /\ Quiescent /\ load.pc = "done" /\ ~ioFailed )
  => MostAccessedCurrent

\* ------------------------------------------------ the embedder and its cache
\* the texts embedded; the first two have the same cache key
EmbedTexts ==
  { <<"api", "compile", "while">>, <<"view", "number", "node">>,
    <<"cache", "test">>, <<"query">>, <<"react", "api">>, <<"test", "query">> }

\* a call of generateEmbedding(text) on the manager's SemanticSearch
Embed(text) ==
  /\ ret' = Return("embed", TRUE, 0, <<generateEmbedding(embeddingCache, text)>>)
  /\ embeddingCache' = cacheAfter(embeddingCache, text)
  /\ UNCHANGED <<memories, index, stats, persisted, now, nextId, load, store, opt, calls, ioFailed>>

\* clearCache()
ClearCache ==
  /\ embeddingCache' = << >>
  /\ ret' = Return("clearCache", TRUE, 0, << >>)
  /\ UNCHANGED <<memories, index, stats, persisted, now, nextId, load, store, opt, calls, ioFailed>>

EmbedSome == \E text \in EmbedTexts : Embed(text)

NextEmbed == EmbedSome \/ ClearCache

SpecEmbed == Init /\ [][NextEmbed]_vars

\* C15: every call of generateEmbedding(text) returns the vector computed
\* from the text alone, whatever was embedded before and whatever the cache
\* holds.
C15_EmbedHistoryIndependent ==
  [][ \A text \in EmbedTexts :
        Embed(text) => ret'.results = <<computeSimpleEmbedding(text)>> ]_vars

\* every element of the list s is in the list t
Contained(s, t) == Range(s) \subseteq Range(t)

\* the metadata keeps what the caller supplied: the scalars as given, the lists
\* within the stored lists, the keywords without a duplicate
CallerMetadataKept(given, kept) ==
  /\ given.source # "" => kept.source = given.source
  /\ given.projectId # "" => kept.projectId = given.projectId
  /\ given.summary # << >> => kept.summary = given.summary
  /\ given.confidence # -1 => kept.confidence = given.confidence
  /\ Contained(given.entities, kept.entities)
  /\ Contained(given.keywords, kept.keywords)
  /\ Cardinality(Range(kept.keywords)) = Len(kept.keywords)

\* C16: a store commits the entry with every scalar metadata field the caller
\* supplied at the caller's value, and every list the caller supplied within
\* the stored list, the keywords holding no duplicate.
C16_MetadataMerge ==
  [][ \A in \in StoreInputs :
        (StoreCall(in) /\ ret'.op = "store-await") =>
          CallerMetadataKept(in.metadata, Lookup(memories', ret'.id).metadata) ]_vars

\* the ids of the entries of the table, in scan order, that share an entity
\* (type and name) with the entry
EntityRelated(tbl, e) ==
  LET hits == SelectSeq(tbl, LAMBDA x : SharedEntities(x, e) # {})
  IN [i \in DOMAIN hits |-> hits[i].id]

\* ... that share no entity and at least 2 keywords with it
KeywordRelated(tbl, e) ==
  LET hits == SelectSeq(tbl, LAMBDA x :
                SharedEntities(x, e) = {} /\ Cardinality(SharedKeywords(x, e)) >= 2)
  IN [i \in DOMAIN hits |-> hits[i].id]

\* C17: the relatedEntries of an entry a store has just committed are the
\* first 10 ids of the entity-related entries of the table followed by the
\* keyword-related ones, each in scan order; the entry's own id is not among
\* them.
C17_RelationFinder ==
  [][ ret'.op = "store-await" =>
        LET new == Lookup(memories', ret'.id)
            all == EntityRelated(memories, new) \o KeywordRelated(memories, new)
        IN /\ new.relatedEntries = SubSeq(all, 1, IF Len(all) < 10 THEN Len(all) ELSE 10)
           /\ new.id \notin Range(new.relatedEntries)
           /\ Len(new.relatedEntries) <= 10 ]_vars

\* a store has committed an entry into a table with more than 10 related
\* candidates: its list is cut to 10 and begins with the oldest of them
C17_Witness ==
  /\ ret.op = "store-await"
  /\ Len(memories) > 12
  /\ Len(Lookup(memories, ret.id).relatedEntries) = 10
  /\ Lookup(memories, ret.id).relatedEntries[1] < nextId - 11

\* result x ranks at least as high as result y by score * importance (the
\* scores are squares p/q)
RanksAtLeast(tbl, x, y) ==
  LET ix == Lookup(tbl, x.id).importance
      iy == Lookup(tbl, y.id).importance
  IN x.score.p * ix * ix * y.score.q >= y.score.p * iy * iy * x.score.q

\* C18: in the list a search returns, the exact and semantic results are in
\* descending order of score * importance.
C18_Ranking ==
  [][ ret'.op = "search" =>
        \A i, j \in DOMAIN ret'.results :
          ( /\ i < j
            /\ ret'.results[i].matchType \in {"exact", "semantic"}
            /\ ret'.results[j].matchType \in {"exact", "semantic"} )
          => RanksAtLeast(memories, ret'.results[i], ret'.results[j]) ]_vars

\* a search has returned two exact results of the same score, the one of
\* higher importance first although it stands later in the table
C18_Witness ==
  /\ ret.op = "search"
  /\ \E i, j \in DOMAIN ret.results :
       /\ i < j
       /\ ret.results[i].matchType = "exact" /\ ret.results[j].matchType = "exact"
       /\ ret.results[i].score = ret.results[j].score
       /\ Lookup(memories, ret.results[i].id).importance
            > Lookup(memories, ret.results[j].id).importance
       /\ ret.results[i].id > ret.results[j].id

\* ---- SemanticSearch.clusterEmbeddings ----

MaxClusters == 2

maxIterations == 100

\* the ids the vectors are given under, in the Map's insertion order
ClusterIds == <<"m1", "m2", "m3">>

\* the vectors clustered: the zero vector, an axis and a vector off it
ClusterVectors == { <<0, 0>>, <<1, 0>>, <<2, 1>> }

\* Array.from(embeddings.entries()) for the Maps of up to Len(ClusterIds) entries
ClusterInputs ==
  { [i \in 1..n |-> [id |-> ClusterIds[i], embedding |-> v[i]]] :
      n \in 0..Len(ClusterIds), v \in [1..Len(ClusterIds) -> ClusterVectors] }

ClusterCounts == 0..MaxClusters

\* a centroid is the mean num/den of its members' vectors
OwnCluster(e) == [centroid |-> [num |-> e.embedding, den |-> 1], members |-> <<e.id>>]

\* similarity x > similarity y, both squares p/q of cosines >= 0
SimGreater(x, y) == x.p * y.q > y.p * x.q

\* the cosine to a mean is the cosine to the sum: the scale cancels
centroidSimilarity(embedding, centroid) == calculateSimilarity(embedding, centroid.num)

\* the first centroid of strictly greatest similarity; bestSimilarity starts
\* at -1, so it is the first centroid when every similarity is 0
bestCluster(embedding, centroids) ==
  LET similarity == << >> \o [i \in DOMAIN centroids |->
                                centroidSimilarity(embedding, centroids[i])]
  IN CHOOSE i \in DOMAIN centroids :
       /\ \A j \in DOMAIN centroids : j < i => SimGreater(similarity[i], similarity[j])
       /\ \A j \in DOMAIN centroids : j > i => ~SimGreater(similarity[j], similarity[i])

\* clusters = centroids.map(...) and the assignment loop
assignClusters(embeddings, centroids) ==
  LET best == << >> \o [j \in DOMAIN embeddings |->
                          [id |-> embeddings[j].id,
                           cluster |-> bestCluster(embeddings[j].embedding, centroids)]]
  IN << >> \o
     [i \in DOMAIN centroids |->
        LET mine == SelectSeq(best, LAMBDA b : b.cluster = i)
        IN [centroid |-> centroids[i],
            members |-> << >> \o [j \in DOMAIN mine |-> mine[j].id]]]

\* the sum of the vectors of the members, component by component
memberSum(embeddings, members) ==
  LET mine == SelectSeq(embeddings, LAMBDA e : \E j \in DOMAIN members : members[j] = e.id)
  IN << >> \o [d \in DOMAIN embeddings[1].embedding |->
                 SumSeq([j \in DOMAIN mine |-> mine[j].embedding[d]])]

\* the new centroid of a cluster; an empty cluster keeps its centroid
newCentroid(embeddings, cluster) ==
  IF cluster.members = << >> THEN cluster.centroid
  ELSE [num |-> memberSum(embeddings, cluster.members), den |-> Len(cluster.members)]

\* similarity < 0.99 between the old and the new centroid
centroidMoved(old, new) ==
  LET sim == calculateSimilarity(old.num, new.num)
  IN 10000 * sim.p < 9801 * sim.q

\* one iteration of the loop: the clusters with their new centroids, the
\* centroids and the value of converged
kMeansStep(embeddings, centroids) ==
  LET updated ==
        { << >> \o [i \in DOMAIN assigned |->
                      [assigned[i] EXCEPT !.centroid = newCentroid(embeddings, assigned[i])]] :
            assigned \in {assignClusters(embeddings, centroids)} }
  IN CHOOSE step \in
       { [ clusters |-> clusters,
           centroids |-> << >> \o [i \in DOMAIN clusters |-> clusters[i].centroid],
           converged |-> \A i \in DOMAIN clusters :
                           clusters[i].members = << >>
                             \/ ~centroidMoved(centroids[i], clusters[i].centroid) ] :
           clusters \in updated } : TRUE

\* the iterations of the loop from the given one on: the clusters it leaves,
\* the number of iterations run and the value of converged in the last one
RECURSIVE kMeansIterate(_, _, _)
kMeansIterate(embeddings, centroids, iteration) ==
  LET step == kMeansStep(embeddings, centroids)
  IN IF step.converged \/ iteration + 1 >= maxIterations
     THEN [clusters |-> step.clusters, iterations |-> iteration + 1,
           converged |-> step.converged]
     ELSE kMeansIterate(embeddings, step.centroids, iteration + 1)

\* kMeansClustering with the centroids initialised from the vectors of the
\* indexes randomIndex; embeddings[0][1] of an empty array and
\* clusters[0].members of an empty cluster list raise TypeError, the first
\* before the loop and the second in its first iteration
kMeansClustering(embeddings, k, randomIndex) ==
  IF embeddings = << >>
  THEN [raised |-> TRUE, clusters |-> << >>, iterations |-> 0, converged |-> FALSE]
  ELSE IF k <= 0
  THEN [raised |-> TRUE, clusters |-> << >>, iterations |-> 1, converged |-> FALSE]
  ELSE LET runs == { kMeansIterate(embeddings,
                                   << >> \o [i \in 1..k |->
                                      [num |-> embeddings[randomIndex[i]].embedding, den |-> 1]],
                                   0) }
       IN CHOOSE outcome \in
            { [ raised |-> FALSE,
                clusters |-> SelectSeq(run.clusters, LAMBDA c : c.members # << >>),
                iterations |-> run.iterations,
                converged |-> run.converged ] : run \in runs } : TRUE

\* clusterEmbeddings(embeddings, numClusters) up to its await: fewer vectors
\* than clusters returns every vector as its own cluster, otherwise
\* kMeansClustering is entered. What a call returns is kept with the number of
\* iterations its k-means loop ran, the last value of converged and the
\* vectors the call was given
ClusterCall(embeddingArray, numClusters) ==
  /\ ret.op # "cluster-call"
  /\ ret' = IF Len(embeddingArray) < numClusters
            THEN Return("cluster", TRUE, numClusters,
                        [ clusters |-> [i \in DOMAIN embeddingArray |->
                                          OwnCluster(embeddingArray[i])],
                          iterations |-> 0, converged |-> FALSE,
                          embeddings |-> embeddingArray ])
            ELSE Return("cluster-call", TRUE, numClusters, embeddingArray)
  /\ UNCHANGED <<memories, index, stats, persisted, now, nextId, load, store, opt, calls,
                 ioFailed, embeddingCache>>

\* kMeansClustering runs with some outcome of Math.random and
\* clusterEmbeddings returns its clusters or rejects
ClusterKMeans ==
  /\ ret.op = "cluster-call"
  /\ \E randomIndex \in [1..ret.id -> 1..(IF ret.results = << >> THEN 1 ELSE Len(ret.results))] :
       LET outcome == kMeansClustering(ret.results, ret.id, randomIndex)
       IN ret' = Return("cluster", ~outcome.raised, ret.id,
                        [ clusters |-> outcome.clusters, iterations |-> outcome.iterations,
                          converged |-> outcome.converged, embeddings |-> ret.results ])
  /\ UNCHANGED <<memories, index, stats, persisted, now, nextId, load, store, opt, calls,
                 ioFailed, embeddingCache>>

ClusterSome ==
  \E embeddingArray \in ClusterInputs, numClusters \in ClusterCounts :
    ClusterCall(embeddingArray, numClusters)

NextCluster == ClusterSome \/ ClusterKMeans

SpecCluster == Init /\ [][NextCluster]_vars

\* the content of the entry contains every term of the text
ContainsAll(memory, text) ==
  \A i \in DOMAIN text : TextIncludes(memory.content, text[i])

\* a term of the text occurs in the entry's content, in its serialized
\* metadata or in one of its tags
ContainsSome(memory, text) ==
  \E i \in DOMAIN text :
    \/ TextIncludes(memory.content, text[i])
    \/ MetadataIncludes(memory, text[i])
    \/ \E j \in DOMAIN memory.tags : Includes(memory.tags[j], text[i])

\* a search by text alone: no semantic search, no relation expansion, no
\* filter, and exactly one entry of the table contains every term
TextOnlyCase(query) ==
  /\ query.text # << >> /\ ~query.semanticSearch /\ ~query.includeRelated
  /\ query.type = "" /\ query.tags = << >> /\ query.projectId = ""
  /\ query.timeRange = << >> /\ query.minImportance = -1
  /\ Cardinality({i \in DOMAIN memories : ContainsAll(memories[i], query.text)}) = 1

\* C19 as stated: when exactly one entry contains every term of the text (the
\* others may contain some of them), a search with that text and no semantic
\* search returns exactly one result, that entry as an exact match, and its
\* accessCount is higher by exactly 1 after the call.
C19_OnlyFullMatch ==
  [][ \A query \in Queries :
        (ret'.op = "search" /\ ret'.query = query /\ TextOnlyCase(query) /\ searchMemories(query))
        => /\ Len(ret'.results) = 1
           /\ ret'.results[1].matchType = "exact"
           /\ ContainsAll(Lookup(memories, ret'.results[1].id), query.text)
           /\ Lookup(memories', ret'.results[1].id).accessCount
                = Lookup(memories, ret'.results[1].id).accessCount + 1 ]_vars

\* C19 amended: in that case the search returns, once each and as exact
\* matches, exactly the entries that contain at least one term of the text
\* (the entry containing every term among them), and the accessCount of each
\* returned entry is higher by exactly 1 after the call, that of the others
\* unchanged.
C19_EveryPartialMatch ==
  [][ \A query \in Queries :
        (ret'.op = "search" /\ ret'.query = query /\ TextOnlyCase(query) /\ searchMemories(query))
        => /\ {ret'.results[i].id : i \in DOMAIN ret'.results}
                = {memories[i].id : i \in {j \in DOMAIN memories :
                                             ContainsSome(memories[j], query.text)}}
           /\ \A i, j \in DOMAIN ret'.results :
                ret'.results[i].id = ret'.results[j].id => i = j
           /\ \A i \in DOMAIN ret'.results : ret'.results[i].matchType = "exact"
           /\ \E i \in DOMAIN ret'.results :
                ContainsAll(Lookup(memories, ret'.results[i].id), query.text)
           /\ \A i \in DOMAIN memories :
                memories'[i].accessCount
                  = memories[i].accessCount
                    + (IF ContainsSome(memories[i], query.text) THEN 1 ELSE 0) ]_vars

\* a search by the text "test query" has returned only exact matches: the one
\* entry containing both words, one containing only the first and one
\* containing only the second
C19_Witness ==
  /\ ret.op = "search"
  /\ \A i \in DOMAIN ret.results : ret.results[i].matchType = "exact"
  /\ Cardinality({i \in DOMAIN memories :
                    ContainsAll(memories[i], <<"test", "query">>)}) = 1
  /\ \E i \in DOMAIN ret.results :
       /\ ContainsAll(Lookup(memories, ret.results[i].id), <<"test", "query">>)
       /\ Lookup(memories, ret.results[i].id).accessCount >= 1
  /\ \E i \in DOMAIN ret.results :
       ~TextIncludes(Lookup(memories, ret.results[i].id).content, "query")
  /\ \E i \in DOMAIN ret.results :
       ~TextIncludes(Lookup(memories, ret.results[i].id).content, "test")

\* C20: clusterEmbeddings never fails on degenerate input: for every set of
\* vectors (the empty set included) and every cluster count k (0, more than
\* the number of vectors, runs with an empty cluster) it returns a list of
\* clusters and does not raise.
C20_ClusterNeverRaises == ret.op = "cluster" => ret.ok

\* ---- SemanticSearch.calculateSimilarity on number arrays ----

\* the arrays calculateSimilarity is called with: every length up to 2, with
\* negative, zero and positive components
SimilarityArrays ==
  UNION { [1..n -> {-1, 0, 1, 2}] : n \in 0..2 }

\* sum of a[i] * b[i] over the indexes of a (the loop of lines 129-133)
ArrayDot(a, b) == SumSeq([i \in DOMAIN a |-> a[i] * b[i]])

\* the cosine dot / sqrt(sq), kept as the pair of the dot product and the
\* product of the squared magnitudes
ZeroSimilarity == [dot |-> 0, sq |-> 1]

\* variant: the lengths are not compared, the loop runs over the common indexes
arraySimilarity_NoLengthCheck(embedding1, embedding2) ==
  LET n == IF Len(embedding1) < Len(embedding2) THEN Len(embedding1) ELSE Len(embedding2)
      a == SubSeq(embedding1, 1, n)
      b == SubSeq(embedding2, 1, n)
  IN IF ArrayDot(a, a) = 0 \/ ArrayDot(b, b) = 0 THEN ZeroSimilarity
     ELSE [dot |-> ArrayDot(a, b), sq |-> ArrayDot(a, a) * ArrayDot(b, b)]

\* calculateSimilarity(embedding1, embedding2)
arraySimilarity(embedding1, embedding2) ==
  IF Len(embedding1) # Len(embedding2) THEN ZeroSimilarity
  ELSE IF ArrayDot(embedding1, embedding1) = 0 \/ ArrayDot(embedding2, embedding2) = 0
       THEN ZeroSimilarity
       ELSE [ dot |-> ArrayDot(embedding1, embedding2),
              sq |-> ArrayDot(embedding1, embedding1) * ArrayDot(embedding2, embedding2) ]

\* a call of calculateSimilarity; the arguments are kept with the value returned
Similarity(embedding1, embedding2) ==
  /\ ret' = Return("similarity", TRUE, 0,
                   [ embedding1 |-> embedding1, embedding2 |-> embedding2,
                     similarity |-> arraySimilarity(embedding1, embedding2) ])
  /\ UNCHANGED <<memories, index, stats, persisted, now, nextId, load, store, opt, calls,
                 ioFailed, embeddingCache>>

NextSimilarity == \E embedding1, embedding2 \in SimilarityArrays : Similarity(embedding1, embedding2)

SpecSimilarity == Init /\ [][NextSimilarity]_vars

\* the squared magnitude of an array
SquaredMagnitude(a) == SumSeq([i \in DOMAIN a |-> a[i] * a[i]])

\* C21: calculateSimilarity never raises; it returns 0 when the two vectors
\* differ in length and 0 when either has zero magnitude; for every other pair
\* it returns the dot product divided by the product of the magnitudes.
C21_Similarity ==
  ret.op = "similarity" =>
    LET a == ret.results.embedding1
        b == ret.results.embedding2
        s == ret.results.similarity
    IN /\ ret.ok
       /\ Len(a) # Len(b) => s.dot = 0
       /\ (SquaredMagnitude(a) = 0 \/ SquaredMagnitude(b) = 0) => s.dot = 0
       /\ (Len(a) = Len(b) /\ SquaredMagnitude(a) # 0 /\ SquaredMagnitude(b) # 0)
            => /\ s.dot = SumSeq([i \in 1..Len(a) |-> a[i] * b[i]])
               /\ s.sq = SquaredMagnitude(a) * SquaredMagnitude(b)

\* calculateSimilarity has returned 0 for two vectors of different lengths whose
\* common components have a non-zero product
C21_Witness ==
  /\ ret.op = "similarity"
  /\ Len(ret.results.embedding1) = 1 /\ Len(ret.results.embedding2) = 2
  /\ ret.results.embedding1[1] * ret.results.embedding2[1] # 0
  /\ ret.results.similarity.dot = 0

\* a search by text alone: no semantic search, no relation expansion, no
\* filter and no result cap given
PlainTextQuery(query) ==
  /\ query.text # << >> /\ ~query.semanticSearch /\ ~query.includeRelated
  /\ query.type = "" /\ query.tags = << >> /\ query.projectId = ""
  /\ query.timeRange = << >> /\ query.minImportance = -1 /\ query.maxResults = -1

\* the score the claim gives, in tenths and before the division by the number
\* of terms: per term 1 for the content, 0.5 for the serialized metadata and
\* 0.8 for every tag that contains that term
ClaimedTextScore(memory, searchTerms) ==
  SumSeq([i \in DOMAIN searchTerms |->
            (IF TextIncludes(memory.content, searchTerms[i]) THEN 10 ELSE 0)
            + (IF MetadataIncludes(memory, searchTerms[i]) THEN 5 ELSE 0)
            + 8 * Cardinality({j \in DOMAIN memory.tags :
                                 Includes(memory.tags[j], searchTerms[i])})])

\* C22: the text score of an entry is the sum over the terms of 1 for the
\* content, 0.5 for the serialized metadata and 0.8 times the number of tags
\* containing that term, divided by the number of terms, and an entry is
\* returned as an exact match iff that score is greater than 0.
C22_TextScoring ==
  [][ \A query \in Queries :
        (ret'.op = "search" /\ ret'.query = query /\ PlainTextQuery(query) /\ searchMemories(query))
        => /\ \A i \in DOMAIN memories :
                (ClaimedTextScore(memories[i], query.text) > 0)
                  <=> \E j \in DOMAIN ret'.results :
                        /\ ret'.results[j].id = memories[i].id
                        /\ ret'.results[j].matchType = "exact"
           /\ \A j \in DOMAIN ret'.results :
                LET claimed == ClaimedTextScore(Lookup(memories, ret'.results[j].id), query.text)
                IN ret'.results[j].score.p * (10 * Len(query.text)) * (10 * Len(query.text))
                     = claimed * claimed * ret'.results[j].score.q ]_vars

\* the entry satisfies every filter the query carries
SatisfiesFilters(memory, query) ==
  /\ query.type # "" => memory.type = query.type
  /\ query.tags # << >> =>
       \E i \in DOMAIN query.tags, j \in DOMAIN memory.tags : memory.tags[j] = query.tags[i]
  /\ query.projectId # "" => memory.metadata.projectId = query.projectId
  /\ query.timeRange # << >> =>
       query.timeRange[1] <= memory.createdAt /\ memory.createdAt <= query.timeRange[2]
  /\ query.minImportance # -1 => memory.importance >= query.minImportance

\* the results of matchType exact or semantic in a list
Matched(results) == SelectSeq(results, LAMBDA r : r.matchType \in {"exact", "semantic"})

\* the text and semantic matches of the query before the filters
Candidates(query) ==
  (IF query.text # << >> THEN performTextSearch(memories, query.text) ELSE << >>)
  \o (IF query.semanticSearch /\ query.text # << >>
      THEN performSemanticSearch(embeddingCache, memories, query.text) ELSE << >>)

\* the cap on the matched results: maxResults, 20 when it is not supplied
ClaimedCap(query) == IF query.maxResults = -1 THEN DefaultMaxResults ELSE query.maxResults

C24_ResultCap ==
  [][ \A query \in Queries :
        (ret'.op = "search" /\ ret'.query = query /\ searchMemories(query))
        => /\ Len(Matched(ret'.results)) <= ClaimedCap(query)
           /\ \A r \in Range(Matched(ret'.results)), c \in Range(Candidates(query)) :
                (SatisfiesFilters(Lookup(memories, c.id), query) /\ c \notin Range(ret'.results))
                  => RanksAtLeast(memories, r, c) ]_vars

\* the same for the searches that supply a maxResults of at least 1 or none
C24_PositiveCap ==
  [][ \A query \in Queries :
        (ret'.op = "search" /\ ret'.query = query /\ query.maxResults # 0 /\ searchMemories(query))
        => /\ Len(Matched(ret'.results)) <= ClaimedCap(query)
           /\ \A r \in Range(Matched(ret'.results)), c \in Range(Candidates(query)) :
                (SatisfiesFilters(Lookup(memories, c.id), query) /\ c \notin Range(ret'.results))
                  => RanksAtLeast(memories, r, c) ]_vars

\* the results of matchType related in a list
Related(results) == SelectSeq(results, LAMBDA r : r.matchType = "related")

\* C25: with includeRelated, the results of matchType related follow the
\* retained ones; their ids are the ids in the relatedEntries of a retained
\* result that are not the id of a retained result and are still in the table
\* (an id that is no longer there is skipped), each once, with the square of
\* 0.7 x the score of the first retained result that refers to it; without
\* includeRelated there is none.
C25_RelationExpansion ==
  [][ \A query \in Queries :
        (ret'.op = "search" /\ ret'.query = query /\ searchMemories(query))
        => LET kept == Matched(ret'.results)
               related == Related(ret'.results)
               refers(i, id) == id \in Range(Lookup(memories, kept[i].id).relatedEntries)
           IN /\ ret'.ok /\ ret'.results = kept \o related
              /\ ~query.includeRelated => related = << >>
              /\ query.includeRelated =>
                   /\ {related[i].id : i \in DOMAIN related}
                        = {id \in Ids(memories) :
                             /\ \E i \in DOMAIN kept : refers(i, id)
                             /\ \A i \in DOMAIN kept : kept[i].id # id}
                   /\ \A i, j \in DOMAIN related : related[i].id = related[j].id => i = j
                   /\ \A r \in Range(related) :
                        \E i \in DOMAIN kept :
                          /\ refers(i, r.id)
                          /\ \A j \in 1..(i - 1) : ~refers(j, r.id)
                          /\ r.score.p * kept[i].score.q * 100
                               = kept[i].score.p * 49 * r.score.q ]_vars

\* a search has appended a related result although a retained result refers
\* to an id that is no longer in the table
C25_Witness ==
  /\ ret.op = "search"
  /\ \E i \in DOMAIN ret.results :
       /\ ret.results[i].matchType = "exact"
       /\ \E id \in Range(Lookup(memories, ret.results[i].id).relatedEntries) :
            ~Has(memories, id)
       /\ \E j \in DOMAIN ret.results :
            /\ ret.results[j].matchType = "related"
            /\ ret.results[j].id \in Range(Lookup(memories, ret.results[i].id).relatedEntries)

\* the number of candidates of the query that satisfy its filters
FilteredCount(query) ==
  Len(SelectSeq(Candidates(query), LAMBDA c : SatisfiesFilters(Lookup(memories, c.id), query)))

\* C26: an entry that matches the query both by text and semantically, passes
\* the filters and is not cut by the result cap appears twice in the list a
\* search returns, once with matchType exact and once with matchType semantic.
C26_MergeKeepsBoth ==
  [][ \A query \in Queries :
        ( /\ ret'.op = "search" /\ ret'.query = query /\ query.semanticSearch /\ query.text # << >>
          /\ FilteredCount(query) <= ClaimedCap(query)
          /\ searchMemories(query) )
        => LET byText == performTextSearch(memories, query.text)
               bySemantics == performSemanticSearch(embeddingCache, memories, query.text)
           IN \A m \in Range(memories) :
             ( /\ \E c \in Range(byText) : c.id = m.id
               /\ \E c \in Range(bySemantics) : c.id = m.id
               /\ SatisfiesFilters(m, query) )
             => /\ Cardinality({i \in DOMAIN ret'.results :
                      ret'.results[i].id = m.id /\ ret'.results[i].matchType = "exact"}) = 1
                /\ Cardinality({i \in DOMAIN ret'.results :
                      ret'.results[i].id = m.id /\ ret'.results[i].matchType = "semantic"}) = 1 ]_vars

\* a search has returned the same entry as an exact and as a semantic match
C26_Witness ==
  /\ ret.op = "search"
  /\ \E i, j \in DOMAIN ret.results :
       /\ ret.results[i].id = ret.results[j].id
       /\ ret.results[i].matchType = "exact"
       /\ ret.results[j].matchType = "semantic"

\* the cosine of two stored vectors is defined and at least the threshold 0.7
CosineAtLeastThreshold(a, b) ==
  /\ Dot(a, a) # 0 /\ Dot(b, b) # 0
  /\ 100 * Dot(a, b) * Dot(a, b)
       >= SimilarityThreshold * SimilarityThreshold * Dot(a, a) * Dot(b, b)

\* C27: with semanticSearch set and a text given, an entry yields a semantic
\* result iff it has a stored embedding whose cosine to the query embedding is
\* >= 0.7; an entry without an embedding or with the zero embedding yields
\* none but is still returned as a text match, and the search does not raise.
C27_SemanticChannel ==
  [][ \A query \in Queries :
        ( /\ ret'.op = "search" /\ ret'.query = query
          /\ query.semanticSearch /\ query.text # << >> /\ query.maxResults = -1
          /\ \A m \in Range(memories) : SatisfiesFilters(m, query)
          /\ searchMemories(query) )
        => /\ ret'.ok
           /\ \A m \in Range(memories) :
                /\ (\E r \in Range(ret'.results) : r.id = m.id /\ r.matchType = "semantic")
                     <=> ( /\ m.embedding # NoEmbedding
                           /\ CosineAtLeastThreshold(
                                generateEmbedding(embeddingCache, query.text), m.embedding) )
                /\ ContainsSome(m, query.text)
                     => \E r \in Range(ret'.results) : r.id = m.id /\ r.matchType = "exact" ]_vars

\* a search has returned a semantic match, and an entry without an embedding
\* and an entry whose embedding is the zero vector as exact matches only
C27_Witness ==
  /\ ret.op = "search"
  /\ \E r \in Range(ret.results) : r.matchType = "semantic"
  /\ \E m \in Range(memories) :
       /\ m.embedding = NoEmbedding
       /\ \E r \in Range(ret.results) : r.id = m.id /\ r.matchType = "exact"
       /\ \A r \in Range(ret.results) : r.id = m.id => r.matchType # "semantic"
  /\ \E m \in Range(memories) :
       /\ m.embedding = << >>
       /\ \E r \in Range(ret.results) : r.id = m.id /\ r.matchType = "exact"
       /\ \A r \in Range(ret.results) : r.id = m.id => r.matchType # "semantic"

\* the entries that are in the table before and after the step keep every
\* field but accessCount and lastAccessed
FrameOfEntries ==
  \A m \in Range(memories), n \in Range(memories') :
    m.id = n.id
      => [n EXCEPT !.accessCount = m.accessCount, !.lastAccessed = m.lastAccessed] = m

\* C28: get, search and optimize never change the id, kind, content, metadata,
\* embedding, createdAt, updatedAt, importance, tags or relatedEntries of an
\* entry that stays in the table: they change accessCount and lastAccessed
\* only, and relatedEntries is not rewritten when an entry it refers to is
\* removed.
C28_FrameOfReads ==
  [][ (Get \/ Search \/ Optimize \/ OptimizeDeleted \/ OptimizeDeleteFailed)
        => FrameOfEntries ]_vars

\* an entry that a read has touched after the eviction still refers to an
\* entry the eviction has removed
C28_Witness ==
  /\ opt.pc = "idle"
  /\ \E m \in Range(memories) :
       /\ \E id \in Range(m.relatedEntries) : ~Has(memories, id)
       /\ m.lastAccessed = now /\ m.accessCount >= 2

\* C29: for every id that stays in the table, the accessCount and the
\* lastAccessed read through the table never decrease, across every
\* interleaving of store, get, search, optimize and the initial load.
C29_AccessMonotonic ==
  [][ \A m \in Range(memories), n \in Range(memories') :
        m.id = n.id
          => n.accessCount >= m.accessCount /\ n.lastAccessed >= m.lastAccessed ]_vars

\* the initial load has just been applied, after an entry stored in this
\* session was read, and that entry keeps the access the read recorded
C29_Witness ==
  /\ ret.op = "load" /\ ret.ok
  /\ \E m \in Range(memories) : m.createdAt >= StartDay /\ m.accessCount >= 1
  /\ \E m \in Range(memories) : m.createdAt < StartDay

\* C30: for every non-empty input with at least k vectors the k-means loop
\* ends after at most 100 iterations, either because every non-empty cluster's
\* new centroid has similarity >= 0.99 to its previous one or because the
\* iteration cap is reached.
C30_ClusterTerminates ==
  (ret.op = "cluster" /\ ret.results.iterations >= 1)
    => /\ ret.results.iterations <= maxIterations
       /\ ret.results.converged \/ ret.results.iterations = maxIterations

\* the same for the calls that ask for at least one cluster
C30_PositiveCount ==
  (ret.op = "cluster" /\ ret.results.iterations >= 1 /\ ret.id >= 1)
    => /\ ret.ok
       /\ ret.results.iterations <= maxIterations
       /\ ret.results.converged \/ ret.results.iterations = maxIterations

\* a run has reached the iteration cap with a cluster of zero vectors, whose
\* centroid is never judged converged
C30_CapReached ==
  /\ ret.op = "cluster" /\ ret.ok
  /\ ret.results.iterations = maxIterations /\ ~ret.results.converged
  /\ \E c \in Range(ret.results.clusters) : Dot(c.centroid.num, c.centroid.num) = 0

\* the shape of what clusterEmbeddings returns for the vectors and the count
\* it was given
ClusterShape(embeddings, k, clusters) ==
  IF Len(embeddings) < k
  THEN /\ Len(clusters) = Len(embeddings)
       /\ \A i \in DOMAIN embeddings :
            /\ clusters[i].members = <<embeddings[i].id>>
            /\ clusters[i].centroid = [num |-> embeddings[i].embedding, den |-> 1]
  ELSE /\ \A i \in DOMAIN embeddings :
            SumSeq([c \in DOMAIN clusters |->
                      Cardinality({ j \in DOMAIN clusters[c].members :
                                      clusters[c].members[j] = embeddings[i].id })]) = 1
       /\ \A c \in DOMAIN clusters :
            /\ clusters[c].members # << >>
            /\ \A j \in DOMAIN clusters[c].members :
                 \E i \in DOMAIN embeddings : embeddings[i].id = clusters[c].members[j]
       /\ Len(clusters) <= k

\* C31: with fewer vectors than k the result of clusterEmbeddings has one
\* singleton cluster per vector whose centroid is that vector; otherwise the
\* member lists of the returned clusters partition the input ids, no returned
\* cluster is empty and at most k clusters are returned.
C31_ClusterShape ==
  ret.op = "cluster"
    => /\ ret.ok
       /\ ClusterShape(ret.results.embeddings, ret.id, ret.results.clusters)

\* the same for the calls that ask for at least one cluster
C31_PositiveCountShape ==
  (ret.op = "cluster" /\ ret.id >= 1)
    => /\ ret.ok
       /\ ClusterShape(ret.results.embeddings, ret.id, ret.results.clusters)

\* k-means has returned fewer clusters than asked for: one ended up empty
C31_EmptyDropped ==
  /\ ret.op = "cluster" /\ ret.ok /\ ret.results.iterations >= 1
  /\ Len(ret.results.clusters) < ret.id
  /\ Len(ret.results.embeddings) = 3

\* the ids the store calls of the session have issued and saved: created
\* counts the saves, and without a failed save every issued id was saved
StoredIds == (nextId - stats.created)..(nextId - 1)

\* C32: for every interleaving of store and optimize calls at their awaits
\* with every persistence call succeeding, once all of them have returned the
\* table holds every newly stored entry and none of the evicted ones, every
\* entry is in all the buckets its fields imply, no bucket holds a removed id
\* and the semantic index holds exactly the vectors of the table.
C32_StoreOptimizeInterleaving ==
  (Quiescent /\ ~ioFailed)
    => /\ StoredIds \subseteq Ids(memories)
       /\ opt.removed \cap Ids(memories) = {}
       /\ IndexConsistent
       /\ EmbeddingsInStep

\* an optimize that evicted has returned last, and a store that began after
\* its scan has returned before it: the store ran within the optimize
C32_Witness ==
  /\ Quiescent /\ ~ioFailed
  /\ ret.op = "optimize" /\ ret.ok /\ opt.removed # {}
  /\ stats.created = 1
  /\ (nextId - 1) \notin Ids(opt.scanned)
  /\ Has(memories, nextId - 1)

\* a store has returned last, and an optimize that evicted has scanned its
\* entry: the optimize ran within the store
C32_OptimizeWithinStore ==
  /\ Quiescent /\ ~ioFailed
  /\ ret.op = "store" /\ ret.ok /\ opt.removed # {}
  /\ ret.id \in Ids(opt.scanned)

\* how many times the id occurs in the list
Occurrences(list, id) == Cardinality({j \in DOMAIN list : list[j] = id})

\* C33: under every interleaving of the constructor's un-awaited initial load
\* with store calls, the id of every entry of the table occurs exactly once in
\* the byType bucket of its kind and at most once in the recent list, and the
\* sum of entriesByType equals totalEntries.
C33_LoadVersusStore ==
  opt = NoOptimize
    => /\ \A i \in DOMAIN memories :
            /\ memories[i].type \in DOMAIN index.byType
            /\ Occurrences(index.byType[memories[i].type], memories[i].id) = 1
            /\ Occurrences(index.recent, memories[i].id) <= 1
       /\ SumOver(DOMAIN stats.entriesByType, stats.entriesByType) = stats.totalEntries

\* the load has been applied while a store call that had already committed
\* its entry was awaiting its save: the stored entry precedes the loaded ones
C33_Witness ==
  /\ opt = NoOptimize
  /\ ret.op = "load" /\ store.pc = "saving"
  /\ Len(memories) > 1 /\ memories[1].id = store.mem.id
  /\ stats.totalEntries = Len(memories)

\* C34: once the initial load has completed and as long as every persistence
\* call succeeds, whenever no store or optimize call is in progress the ids
\* the persistence collaborator holds are the ids of the table: every stored
\* entry was put and every evicted entry was deleted.
C34_DurableSetAgrees ==
  (load.pc = "done" /\ ~ioFailed /\ Quiescent) => Ids(persisted) = Ids(memories)

\* a store and an optimize that evicted have both returned after the load,
\* and the table is not empty
C34_Witness ==
  /\ load.pc = "done" /\ ~ioFailed /\ Quiescent
  /\ stats.created >= 1 /\ Has(persisted, nextId - 1)
  /\ opt.removed # {} /\ opt.removed \cap Ids(persisted) = {}
  /\ Len(memories) > 1

\* the ids optimize would evict from the table at the current time
EvictedFrom(tbl) ==
  {tbl[i].id : i \in {j \in DOMAIN tbl : Evictable(tbl[j], now - ThirtyDays)}}

\* C35: after get or search has changed the accessCount and lastAccessed of
\* an entry, the persisted copy of the entry carries the same accessCount and
\* lastAccessed, so that an optimize run on the table reloaded from
\* persistence evicts exactly the entries it evicts from the table as it is.
C35_AccessDurable ==
  ( /\ \/ ret.op = "get" /\ ret.ok
       \/ ret.op = "search" /\ ret.results # << >>
    /\ load.pc = "done" /\ Quiescent /\ ~ioFailed )
  => /\ \A i \in DOMAIN memories :
          Has(persisted, memories[i].id)
            => /\ Lookup(persisted, memories[i].id).accessCount = memories[i].accessCount
               /\ Lookup(persisted, memories[i].id).lastAccessed = memories[i].lastAccessed
     /\ EvictedFrom(persisted) = EvictedFrom(memories)

\* a get has raised the accessCount of an entry to 3 in the table, and
\* optimize would keep the entry but evict its persisted copy
C35_EvictionDiffers ==
  /\ ret.op = "get" /\ ret.ok
  /\ load.pc = "done" /\ Quiescent /\ ~ioFailed
  /\ ret.id \notin EvictedFrom(memories)
  /\ ret.id \in EvictedFrom(persisted)

\* C36: a store call that fails before its in-memory commit, because the
\* enrichment step raises, leaves the table, every secondary index, the recent
\* list, the semantic index, the stats and the persisted set as they were
\* before the call.
C36_FailedStoreChangesNothing ==
  [][ (ret'.op = "store" /\ ~ret'.ok /\ ret'.id = 0 /\ calls' = calls + 1)
        => /\ memories' = memories
           /\ index' = index
           /\ stats' = stats
           /\ persisted' = persisted ]_vars

\* a store call has failed in the enrichment step with the table loaded and
\* nothing of its content in the table
C36_Witness ==
  /\ ret.op = "store" /\ ~ret.ok /\ ret.id = 0
  /\ Len(memories) > 1 /\ index.recent # << >>
  /\ \A i \in DOMAIN memories : memories[i].content # <<"c++11">>

\* C37: a search whose query has no text returns the empty list whatever
\* filters, semanticSearch or includeRelated flags it carries, and changes no
\* entry's accessCount or lastAccessed and no counter of the stats.
C37_NoTextNoResults ==
  [][ \A query \in Queries :
        (ret'.op = "search" /\ ret'.query = query /\ query.text = << >>
           /\ searchMemories(query))
        => /\ ret'.results = << >>
           /\ memories' = memories
           /\ stats' = stats ]_vars

\* a search without text that carries filters and both flags has returned,
\* with conversations of importance 0.2 or more in the table
C37_Witness ==
  /\ ret.op = "search" /\ ret.ok /\ ret.results = << >>
  /\ ret.query.text = << >> /\ ret.query.type = "conversation"
  /\ ret.query.semanticSearch /\ ret.query.includeRelated
  /\ \E i \in DOMAIN memories :
       memories[i].type = "conversation" /\ memories[i].importance >= 2

\* a term that is not empty is a substring of the content, of the serialised
\* metadata or of a tag of the entry
SomeTermFound(memory, text) ==
  \E i \in DOMAIN text :
    /\ text[i] # ""
    /\ \/ TextIncludes(memory.content, text[i])
       \/ MetadataIncludes(memory, text[i])
       \/ \E j \in DOMAIN memory.tags : Includes(memory.tags[j], text[i])

\* C38: an entry is returned as an exact match only if at least one non-empty
\* term of the query text is a substring of its content, of its serialised
\* metadata or of one of its tags: a text of white space only, or with leading
\* or trailing white space, does not by that fact match every entry.
C38_OnlyRealTermsMatch ==
  [][ \A query \in Queries :
        (ret'.op = "search" /\ ret'.query = query /\ searchMemories(query))
        => \A i \in DOMAIN ret'.results :
             ret'.results[i].matchType = "exact"
               => SomeTermFound(Lookup(memories, ret'.results[i].id), query.text) ]_vars

\* the same for the texts without leading or trailing white space
C38_TrimmedTexts ==
  [][ \A query \in Queries :
        (ret'.op = "search" /\ ret'.query = query
           /\ (\A i \in DOMAIN query.text : query.text[i] # "")
           /\ searchMemories(query))
        => \A i \in DOMAIN ret'.results :
             ret'.results[i].matchType = "exact"
               => SomeTermFound(Lookup(memories, ret'.results[i].id), query.text) ]_vars

\* a search for white space only has returned every entry of the table
C38_WhitespaceMatchesAll ==
  /\ ret.op = "search" /\ ret.query.text = <<"", "">>
  /\ Len(memories) > 1
  /\ Ids(memories) = {ret.results[i].id : i \in DOMAIN ret.results}

\* the entities and keywords a query is varied with
QueryEntities == { << >>, <<"view">> }

QueryKeywords == { << >>, <<"node">> }

\* the queries that differ from the query in entities and keywords at most
Twins(query) ==
  { [query EXCEPT !.entities = e, !.keywords = k] : e \in QueryEntities, k \in QueryKeywords }

\* C39: the entities and keywords of a query have no effect: a search returns
\* the list (entries, scores, match types, order) and makes the access updates
\* that the same engine state gives for every query that differs from its
\* query only in entities and keywords.
C39_EntitiesKeywordsIgnored ==
  [][ \A query \in Queries :
        (ret'.op = "search" /\ ret'.query = query /\ searchMemories(query))
        => \A twin \in Twins(query) \ {query} :
             \E results \in {SearchResults(embeddingCache, memories, twin)} :
               /\ ret'.results = results
               /\ memories' = TouchAll(memories, results, now)
               /\ stats'.accessed = stats.accessed + Len(results) ]_vars

\* a search that names an entity and a keyword has returned an entry that has
\* neither
C39_Witness ==
  /\ ret.op = "search"
  /\ ret.query.entities = <<"view">> /\ ret.query.keywords = <<"node">>
  /\ \E i \in DOMAIN ret.results :
       LET e == Lookup(memories, ret.results[i].id)
       IN /\ "node" \notin Range(e.metadata.keywords)
          /\ \A k \in DOMAIN e.metadata.entities : e.metadata.entities[k].name # "view"
          /\ e.accessCount >= 1 /\ e.lastAccessed = now

\* ---- SemanticSearch.hashWordToDimension on tokens ----

MaxTokenLength == 7

\* "polygenelubricants", whose hash is -2^31
MinHashToken ==
  <<112, 111, 108, 121, 103, 101, 110, 101, 108, 117, 98, 114, 105, 99, 97, 110, 116, 115>>

\* the tokens hashed: every word of a and z that tokenize lets through, long
\* enough for the hash to wrap around, and the token of the most negative hash
HashTokens ==
  UNION { [1..n -> {97, 122}] : n \in 3..MaxTokenLength } \cup {MinHashToken}

\* the step of computeSimpleEmbedding for one token: the dimension its weight
\* is added to, kept with the token and its 32-bit hash
HashToken(word) ==
  /\ ret' = Return("hash", TRUE, 0,
                   [ word |-> word, hash |-> HashCodes(word, <<0, 0>>),
                     dimension |-> hashWordToDimension(word) ])
  /\ UNCHANGED <<memories, index, stats, persisted, now, nextId, load, store, opt, calls,
                 ioFailed, embeddingCache>>

NextHash == \E word \in HashTokens : HashToken(word)

SpecHash == Init /\ [][NextHash]_vars

\* the hash 31^(n-1)*c1 + ... + cn of a token, exact for the tokens it does
\* not wrap around for
RECURSIVE ExactHash(_)
ExactHash(word) ==
  IF word = << >> THEN 0
  ELSE 31 * ExactHash(SubSeq(word, 1, Len(word) - 1)) + word[Len(word)]

\* C40: hashWordToDimension returns an integer in [0, 384) for every token,
\* the hash being computed in 32-bit signed arithmetic with wrap-around, also
\* for a token whose hash is the most negative 32-bit value: the weight of a
\* token is never added outside the 384 positions of the embedding.
C40_DimensionInRange ==
  ret.op = "hash"
    => /\ ret.results.dimension \in 0..(EMBEDDING_DIMENSION - 1)
       /\ ret.results.hash[1] \in 0..65535 /\ ret.results.hash[2] \in 0..65535
       /\ Len(ret.results.word) <= 5
            => ret.results.dimension = ExactHash(ret.results.word) % EMBEDDING_DIMENSION
       /\ ret.results.hash = <<32768, 0>> => ret.results.dimension = 128

\* the token whose hash is -2^31 has been hashed
C40_Witness ==
  /\ ret.op = "hash"
  /\ ret.results.word = MinHashToken
  /\ ret.results.hash = <<32768, 0>>

\* a token whose hash has wrapped around to a negative value other than
\* -2^31 has been hashed
C40_NegativeHash ==
  /\ ret.op = "hash"
  /\ ret.results.hash[1] > 32768
  /\ Len(ret.results.word) = MaxTokenLength
====
